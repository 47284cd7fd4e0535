----------------------- MODULE OfflinePipeline_proofs -----------------------
(***************************************************************************)
(* Proofs about the offline pipeline, for every number of requests, every  *)
(* set of items and every length of tracks and buffers.                    *)
(*                                                                         *)
(* First, that the session inside the pipeline is the session: every step  *)
(* of a call is one of its steps or none, so that what is proved of the    *)
(* session alone (SP, PlaybackSession_proofs) holds of the pipeline's.     *)
(* Then, the invariants that tie the pipeline's own state to it.           *)
(***************************************************************************)
EXTENDS OfflinePipeline, FiniteSetTheorems, WellFoundedInduction, TLAPS

SP == INSTANCE PlaybackSession_proofs

\* The session of the model and the session of its proofs are one.
LEMMA SameInit == S!Init => SP!Init
BY DEF S!Init, SP!Init, S!NewClock, SP!NewClock, S!NewTracker, SP!NewTracker,
   S!NoReason, SP!NoReason

LEMMA SameNext == S!Next => SP!Next
BY DEF S!core, SP!core, S!Cancelled, SP!Cancelled, S!Resolved, SP!Resolved,
   S!Record, SP!Record, S!Start, SP!Start, S!RecordRejected,
   SP!RecordRejected, S!RecordApplied, SP!RecordApplied, S!TokenFor,
   SP!TokenFor, S!Resolve, SP!Resolve, S!MarkApplied, SP!MarkApplied,
   S!CancellationOutcome, SP!CancellationOutcome, S!Cancel, SP!Cancel,
   S!Classify, SP!Classify, S!BeginEpoch, SP!BeginEpoch, S!SeekTo, SP!SeekTo,
   S!PauseBoundary, SP!PauseBoundary, S!ResumeBoundary, SP!ResumeBoundary,
   S!SourceTransition, SP!SourceTransition, S!StopBoundary, SP!StopBoundary,
   S!AdvanceRenderedFrames, SP!AdvanceRenderedFrames,
   S!AcknowledgeDiscontinuity, SP!AcknowledgeDiscontinuity, S!Positions,
   SP!Positions, S!PendingPlay, SP!PendingPlay, S!PendingResume,
   SP!PendingResume, S!PendingSeek, SP!PendingSeek, S!Intent, SP!Intent,
   S!Return, SP!Return, S!ReturnIntent, SP!ReturnIntent, S!Untouched,
   SP!Untouched, S!Reject, SP!Reject, S!NextGeneration, SP!NextGeneration,
   S!StartToken, SP!StartToken, S!BeginOperation, SP!BeginOperation,
   S!Boundary, SP!Boundary, S!Fresh, SP!Fresh, S!DispatchDuplicate,
   SP!DispatchDuplicate, S!Playable, SP!Playable, S!DispatchPlay,
   SP!DispatchPlay, S!DispatchPause, SP!DispatchPause, S!DispatchResume,
   SP!DispatchResume, S!DispatchSeek, SP!DispatchSeek, S!DispatchStop,
   SP!DispatchStop, S!DispatchCancel, SP!DispatchCancel,
   S!DispatchQueueCommand, SP!DispatchQueueCommand, S!EventKinds,
   SP!EventKinds, S!TerminalEvents, SP!TerminalEvents, S!TerminalStates,
   SP!TerminalStates, S!TerminalState, SP!TerminalState, S!FromActive,
   SP!FromActive, S!EventVerdict, SP!EventVerdict, S!Expected, SP!Expected,
   S!ActiveTerminalEvent, SP!ActiveTerminalEvent, S!StaleEvent, SP!StaleEvent,
   S!UnexpectedEvent, SP!UnexpectedEvent, S!SourceReady, SP!SourceReady,
   S!ActivationClock, SP!ActivationClock, S!PrebufferReady, SP!PrebufferReady,
   S!SeekApplied, SP!SeekApplied, S!PendingTerminalEvent,
   SP!PendingTerminalEvent, S!HandleWorkerEvent, SP!HandleWorkerEvent,
   S!RecordRenderedFrames, SP!RecordRenderedFrames, S!Acknowledge,
   SP!Acknowledge, S!Dispatch, SP!Dispatch, S!WorkerEvent, SP!WorkerEvent,
   S!Next, SP!Next, S!Contains, SP!Contains, S!NoReason, SP!NoReason

LEMMA SameVars == UNCHANGED S!vars => UNCHANGED SP!vars
BY DEF S!vars, SP!vars, S!core, SP!core

LEMMA SameSpec == S!Spec => SP!Spec
BY SameInit, SameNext, SameVars, PTL DEF S!Spec, SP!Spec

\* What the session assumes of its constants is assumed of the pipeline's.
LEMMA SessionAssumption == SP!PlaybackSessionAssumption
BY NothingAssumption DEF SP!PlaybackSessionAssumption, S!Tokens, SP!Tokens,
   S!PendingOperations, SP!PendingOperations, S!SessionStates, SP!SessionStates

\* What the proofs below use of the session's own invariant.
SessionInv ==
  /\ S!TypeOK
  /\ S!PendingIsCurrent
  /\ S!EveryStateHasAnOwner

LEMMA SessionFacts == SP!IInv => SessionInv
BY DEF SP!IInv, SessionInv, SP!TypeOK, S!TypeOK, SP!PendingIsCurrent,
   S!PendingIsCurrent, SP!EveryStateHasAnOwner, S!EveryStateHasAnOwner,
   SP!SessionStates, S!SessionStates, SP!Clocks, S!Clocks,
   SP!DiscontinuityReasons, S!DiscontinuityReasons, SP!NoReason, S!NoReason,
   SP!PendingOperations, S!PendingOperations, SP!Tokens, S!Tokens,
   SP!Trackers, S!Trackers, SP!Records, S!Records, SP!RequestStates,
   S!RequestStates, SP!Resolved, S!Resolved, SP!Cancelled, S!Cancelled,
   SP!Results, S!Results, SP!Intents, S!Intents
-----------------------------------------------------------------------------
(* The queue, the numbers, and where they come from. *)

QueueFields ==
  {"items", "order", "current", "position", "shuffle", "seed", "repeat",
   "threshold"}

IsQueue(q) == DOMAIN q = QueueFields /\ q.items \in Seq(Items)

LEMMA NewQueueIsQueue == IsQueue(NewQueue)
BY DEF IsQueue, QueueFields, NewQueue

\* No method of the queue changes a track, but those that replace them all.
LEMMA WithCurrentIsQueue ==
  ASSUME NEW q, IsQueue(q), NEW order, NEW current
  PROVE  IsQueue(WithCurrent(q, order, current))
BY DEF IsQueue, QueueFields, WithCurrent

LEMMA AtIsQueue ==
  ASSUME NEW q, IsQueue(q), NEW place
  PROVE  IsQueue(At(q, place))
BY DEF IsQueue, QueueFields, At

LEMMA RebuildIsQueue ==
  ASSUME NEW q, IsQueue(q), NEW current
  PROVE  IsQueue(Rebuild(q, current).queue)
BY WithCurrentIsQueue DEF Rebuild, Returns

LEMMA ReplaceIsQueue ==
  ASSUME NEW q, IsQueue(q), NEW items \in Seq(Items), NEW current
  PROVE  IsQueue(ReplaceItems(q, items, current).queue)
<1>1. IsQueue([q EXCEPT !.items = items])
  BY DEF IsQueue, QueueFields
<1>2. QED
  BY <1>1, RebuildIsQueue DEF ReplaceItems

LEMMA PoliciesAreQueues ==
  ASSUME NEW q, IsQueue(q), NEW on, NEW seed, NEW mode
  PROVE  IsQueue(SetShuffle(q, on, seed).queue) /\ IsQueue(SetRepeat(q, mode))
<1>1. /\ IsQueue([q EXCEPT !.shuffle = on, !.seed = seed])
      /\ IsQueue([q EXCEPT !.repeat = mode])
  BY DEF IsQueue, QueueFields
<1>2. QED
  BY <1>1, RebuildIsQueue DEF SetShuffle, SetRepeat

\* A selection returns a queue, and when it names a track it is one of its.
IsSelection(result) ==
  /\ IsQueue(result.queue)
  /\ Selects(result) => result.transition.index \in DOMAIN result.queue.items

LEMMA MovesAreSelections ==
  ASSUME NEW q, IsQueue(q), NEW kind
  PROVE  IsSelection(Moves(q, kind)) /\ IsQueue(Moves(q, kind).queue)
BY DEF IsSelection, Moves, Transition, NoTrack, Selects

LEMMA StaysAreSelections ==
  ASSUME NEW q, IsQueue(q), NEW kind \in {"Empty", "Ended"}
  PROVE  IsSelection(Stays(q, kind)) /\ IsQueue(Stays(q, kind).queue)
BY DEF IsSelection, Stays, NoTrack, Selects

LEMMA SelectionsAreSelections ==
  ASSUME NEW q, IsQueue(q), NEW reason, NEW pos, NEW index
  PROVE  /\ IsSelection(First(q))
         /\ IsSelection(Select(q, index))
         /\ IsSelection(AdvanceNext(q, reason))
         /\ IsSelection(Previous(q, pos))
<1>1. IsQueue([q EXCEPT !.position = 0, !.current = 0])
  BY DEF IsQueue, QueueFields
<1>2. IsSelection(First(q))
  BY <1>1, AtIsQueue, MovesAreSelections, StaysAreSelections DEF First
<1>3. IsSelection(Select(q, index))
  BY WithCurrentIsQueue, MovesAreSelections DEF Select
<1>4. IsSelection(AdvanceNext(q, reason))
  BY <1>2, AtIsQueue, MovesAreSelections, StaysAreSelections DEF AdvanceNext
<1>5. IsSelection(Previous(q, pos))
  BY AtIsQueue, MovesAreSelections, StaysAreSelections DEF Previous
<1>6. QED
  BY <1>2, <1>3, <1>4, <1>5

LEMMA SelectForPlayIsQueue ==
  ASSUME IsQueue(queue), NEW item
  PROVE  IsQueue(SelectForPlay(item))
BY SelectionsAreSelections DEF SelectForPlay, IsSelection

LEMMA TrackOfIsItem ==
  ASSUME NEW result, IsSelection(result), Selects(result)
  PROVE  TrackOf(result) \in Items
BY DEF IsSelection, IsQueue, TrackOf

\* Minima of two and three numbers.
LEMMA MinOfTwo ==
  ASSUME NEW a \in Int, NEW b \in Int
  PROVE  Min({a, b}) = IF a <= b THEN a ELSE b
<1> DEFINE m == IF a <= b THEN a ELSE b
<1>1. m \in {a, b} /\ \A y \in {a, b} : m <= y
  OBVIOUS
<1>2. \A x \in {a, b} : (\A y \in {a, b} : x <= y) => x = m
  OBVIOUS
<1>3. QED
  BY <1>1, <1>2 DEF Min

LEMMA MinOfThree ==
  ASSUME NEW a \in Int, NEW b \in Int, NEW c \in Int
  PROVE  /\ Min({a, b, c}) \in {a, b, c}
         /\ Min({a, b, c}) <= a /\ Min({a, b, c}) <= b /\ Min({a, b, c}) <= c
<1>1. \E x \in {a, b, c} : \A y \in {a, b, c} : x <= y
  OBVIOUS
<1>2. QED
  BY <1>1 DEF Min

\* The greatest of some numbers up to n.
LEMMA MaxExists ==
  ASSUME NEW n \in Nat, NEW T \in SUBSET (0 .. n), T # {}
  PROVE  Max(T) \in T /\ \A y \in T : Max(T) >= y
<1> DEFINE R == {ss \in Nat \X Nat : ss[1] < ss[2]}
           M == {n - x : x \in T}
<1>1. IsWellFoundedOn(R, Nat)
  BY NatLessThanWellFounded DEF OpToRel
<1>2. M \subseteq Nat /\ M # {}
  <2>1. \A x \in T : n - x \in Nat
    OBVIOUS
  <2>2. M \subseteq Nat
    BY <2>1
  <2>3. PICK x \in T : TRUE
    OBVIOUS
  <2>4. n - x \in M
    BY <2>3
  <2>5. QED
    BY <2>2, <2>4
<1>3. \E x \in M : \A y \in M : <<y, x>> \notin R
  BY <1>1, <1>2, WFMin
<1>4. PICK x \in T : \A y \in T : <<n - y, n - x>> \notin R
  BY <1>3
<1>5. \A y \in T : x >= y
  <2> SUFFICES ASSUME NEW y \in T PROVE x >= y
    OBVIOUS
  <2>1. n - x \in Nat /\ n - y \in Nat /\ x \in Nat /\ y \in Nat
    OBVIOUS
  <2>2. ~(n - y < n - x)
    BY <1>4, <2>1
  <2>3. QED
    BY <2>1, <2>2
<1>6. QED
  BY <1>5 DEF Max

\* An internal id, when there is one left, is a request nobody has used.
LEMMA InternalIdIsNew ==
  ASSUME NEW used, nextInternal \in 0 .. Cardinality(Requests)
  PROVE  /\ InternalId(used) \in 0 .. nextInternal
         /\ ~Exhausted(used) =>
              InternalId(used) \in Requests /\ InternalId(used) \notin used
<1>1. Cardinality(Requests) \in Nat /\ Requests = 1 .. Cardinality(Requests)
  BY OfflinePipelineAssumption, FS_CardinalityType
<1> DEFINE T == {0} \cup ((1 .. nextInternal) \ used)
<1>2. nextInternal \in Nat /\ T \in SUBSET (0 .. nextInternal) /\ T # {}
  BY <1>1
<1>3. Max(T) \in T
  BY <1>2, MaxExists
<1>4. InternalId(used) \in T
  BY <1>3 DEF InternalId
<1>5. QED
  BY <1>1, <1>4 DEF Exhausted
-----------------------------------------------------------------------------
(* What every call keeps: the parts of the pipeline have their shapes, and its *)
(* tokens are tokens of the session.                                          *)

Shapes ==
  /\ IsQueue(queue)
  /\ buffer \in [generation : Nat, frames : Seq(Frames)]
  /\ decoder \in Decoders \cup {NoDecoder}
  /\ nextInternal \in 0 .. Cardinality(Requests)
  /\ seen \subseteq Requests
  /\ thenPlay \in [req : Requests, item : Items] \cup {NoPlay}
  /\ activeWorker \in issued \cup {NoToken}
  /\ Intent # NoIntent => Intent.token \in issued
  /\ Intent # NoIntent /\ Intent.kind = "ResolveSource" => Intent.item \in Items
  /\ calling = "fill" => Intent # NoIntent /\ Intent.kind = "PrepareBuffer"

TokensKept ==
  /\ issued \subseteq issued'
  /\ Intent' # NoIntent =>
       /\ Intent'.token \in issued'
       /\ Intent'.kind = "ResolveSource" => Intent'.item \in Items

\* A command, or an event that carries a token handed out before, hands out the
\* token of the intent it returns.
LEMMA CommandKeepsTokens ==
  ASSUME SessionInv, NEW r \in Requests, S!Dispatch(r)
  PROVE  TokensKept
<1> USE DEF TokensKept, Intent, S!Reject, S!Return, S!ReturnIntent, S!Intent
<1>1. CASE S!DispatchDuplicate(r) \/ S!DispatchQueueCommand(r)
  BY <1>1 DEF S!DispatchDuplicate, S!DispatchQueueCommand
<1>2. CASE \E i \in Items \cup {NoItem} : S!DispatchPlay(r, i)
  BY <1>2 DEF S!DispatchPlay, SessionInv, S!TypeOK
<1>3. CASE S!DispatchPause(r) \/ S!DispatchStop(r)
  BY <1>3 DEF S!DispatchPause, S!DispatchStop
<1>4. CASE S!DispatchResume(r)
  BY <1>4 DEF S!DispatchResume
<1>5. CASE \E pos \in S!Positions : S!DispatchSeek(r, pos)
  BY <1>5 DEF S!DispatchSeek
<1>6. CASE \E target \in Requests : S!DispatchCancel(r, target)
  BY <1>6 DEF S!DispatchCancel
<1>7. QED
  BY <1>1, <1>2, <1>3, <1>4, <1>5, <1>6 DEF S!Dispatch

LEMMA EventKeepsTokens ==
  ASSUME NEW kind, NEW token \in issued, NEW pos, S!HandleWorkerEvent(kind, token, pos)
  PROVE  TokensKept
BY DEF TokensKept, Intent, S!Return, S!ReturnIntent, S!Intent,
   S!HandleWorkerEvent, S!ActiveTerminalEvent, S!StaleEvent, S!SourceReady,
   S!PrebufferReady, S!SeekApplied, S!PendingTerminalEvent, S!UnexpectedEvent

LEMMA SessionStands ==
  ASSUME Shapes, UNCHANGED sessionVars
  PROVE  TokensKept
BY DEF Shapes, TokensKept, sessionVars, Intent

\* The commands the pipeline gives the session are commands, its reports events.
LEMMA SessionCommandDispatches ==
  ASSUME NEW r \in Requests, SessionCommand(r)
  PROVE  S!Dispatch(r)
BY DEF SessionCommand, Dispatched, S!Dispatch

LEMMA PlayDispatches ==
  ASSUME NEW r \in Requests, NEW item \in Items,
         Dispatched(r, S!DispatchPlay(r, item))
  PROVE  S!Dispatch(r)
BY DEF Dispatched, S!Dispatch

LEMMA StopDispatches ==
  ASSUME NEW r \in Requests, Dispatched(r, S!DispatchStop(r))
  PROVE  S!Dispatch(r)
BY DEF Dispatched, S!Dispatch

LEMMA ReportIsWorkerEvent ==
  ASSUME NEW kind \in S!EventKinds, NEW token \in issued, NEW pos \in S!Positions,
         kind # "SeekApplied" => pos = 0,
         ApplyWorkerEvent(kind, token, pos)
  PROVE  /\ S!WorkerEvent
         /\ TokensKept
         /\ activeWorker' \in {token, NoToken}
         /\ activeWorker' \in issued' \cup {NoToken}
<1>1. S!HandleWorkerEvent(kind, token, pos) /\ activeWorker' \in {token, NoToken}
  BY DEF ApplyWorkerEvent
<1>2. TokensKept
  BY <1>1, EventKeepsTokens
<1>3. S!WorkerEvent
  BY <1>1 DEF S!WorkerEvent
<1>4. QED
  BY <1>1, <1>2, <1>3 DEF TokensKept

\* What a session step or its absence is, in one word.
SessionMoves ==
  \/ \E r \in Requests : S!Dispatch(r)
  \/ S!WorkerEvent
  \/ \E n \in 1 .. MaxPosition : S!RecordRenderedFrames(n)
  \/ S!Acknowledge
  \/ UNCHANGED sessionVars

\* The parts of Shapes that are about the tokens follow from what a step does to
\* the session and the worker token; the rest is about sound and queue.
LEMMA TokenShapes ==
  ASSUME Shapes, TokensKept, activeWorker' \in issued' \cup {NoToken},
         IsQueue(queue'), nextInternal' \in 0 .. Cardinality(Requests),
         seen' \subseteq Requests,
         thenPlay' \in [req : Requests, item : Items] \cup {NoPlay},
         buffer' \in [generation : Nat, frames : Seq(Frames)],
         decoder' \in Decoders \cup {NoDecoder},
         calling' = "fill" => Intent' # NoIntent /\ Intent'.kind = "PrepareBuffer"
  PROVE  Shapes'
BY DEF Shapes, TokensKept

\* The same for a step that leaves the session alone.
LEMMA QuietShapes ==
  ASSUME Shapes, UNCHANGED sessionVars, activeWorker' \in {activeWorker, NoToken},
         IsQueue(queue'), nextInternal' \in 0 .. Cardinality(Requests),
         seen' \subseteq Requests,
         thenPlay' \in [req : Requests, item : Items] \cup {NoPlay},
         buffer' \in [generation : Nat, frames : Seq(Frames)],
         decoder' \in Decoders \cup {NoDecoder},
         calling' = "fill" => Intent # NoIntent /\ Intent.kind = "PrepareBuffer"
  PROVE  SessionMoves /\ Shapes'
<1>1. TokensKept /\ Intent' = Intent /\ issued' = issued
  BY SessionStands DEF sessionVars, Intent
<1>2. activeWorker' \in issued' \cup {NoToken}
  BY <1>1 DEF Shapes
<1>3. QED
  BY <1>1, <1>2, TokenShapes DEF SessionMoves

\* A step that leaves sound, queue and ids alone keeps their shapes.
LEMMA KeptShapes ==
  ASSUME Shapes
  PROVE  /\ activeWorker \in issued \cup {NoToken}
         /\ UNCHANGED queue => IsQueue(queue')
         /\ UNCHANGED nextInternal => nextInternal' \in 0 .. Cardinality(Requests)
         /\ UNCHANGED seen => seen' \subseteq Requests
         /\ UNCHANGED thenPlay =>
              thenPlay' \in [req : Requests, item : Items] \cup {NoPlay}
         /\ UNCHANGED sound =>
              /\ buffer' \in [generation : Nat, frames : Seq(Frames)]
              /\ decoder' \in Decoders \cup {NoDecoder}
         /\ Silence => /\ buffer' \in [generation : Nat, frames : Seq(Frames)]
                       /\ decoder' \in Decoders \cup {NoDecoder}
<1>1. Silence => /\ buffer' \in [generation : Nat, frames : Seq(Frames)]
                 /\ decoder' \in Decoders \cup {NoDecoder}
  BY DEF Shapes, Silence, ResetBuffer
<1>2. QED
  BY <1>1 DEF Shapes, sound
-----------------------------------------------------------------------------
(* Every step is a step of the session, and keeps the shapes. *)

LEMMA ZeroIsPosition == 0 \in S!Positions
BY NothingAssumption DEF S!Positions

\* Commands of callers, but Next and Previous.
LEMMA CommandShapes ==
  ASSUME Shapes, SessionInv, NEW r \in Requests,
         \/ DuplicateCommand(r)
         \/ \E items \in SeqOf(Items, MaxItems), current \in 0 .. MaxItems :
              SetQueueCommand(r, items, current)
         \/ \E on \in BOOLEAN, seed \in Seeds : SetShuffleCommand(r, on, seed)
         \/ \E mode \in RepeatModes : SetRepeatCommand(r, mode)
         \/ SessionCommand(r)
  PROVE  SessionMoves /\ Shapes'
<1>1. CASE DuplicateCommand(r)
  BY <1>1, QuietShapes, KeptShapes
  DEF DuplicateCommand, ids
<1>2. ASSUME NEW q, IsQueue(q), OnQueue(r, q)
      PROVE  SessionMoves /\ Shapes'
  BY <1>2, QuietShapes, KeptShapes DEF OnQueue, Command, Shapes
<1>3. CASE \E items \in SeqOf(Items, MaxItems), current \in 0 .. MaxItems :
             SetQueueCommand(r, items, current)
  <2>1. PICK items \in SeqOf(Items, MaxItems), current \in 0 .. MaxItems :
               SetQueueCommand(r, items, current)
    BY <1>3
  <2>2. items \in Seq(Items)
    <3>1. PICK n \in 0 .. MaxItems : items \in [1 .. n -> Items]
      BY PlaybackQueueAssumption DEF SeqOf
    <3>2. QED
      BY <3>1, PlaybackQueueAssumption
  <2>3. QED
    BY <1>2, <2>1, <2>2, ReplaceIsQueue DEF SetQueueCommand, Shapes
<1>4. CASE \E on \in BOOLEAN, seed \in Seeds : SetShuffleCommand(r, on, seed)
  BY <1>2, <1>4, PoliciesAreQueues DEF SetShuffleCommand, Shapes
<1>5. CASE \E mode \in RepeatModes : SetRepeatCommand(r, mode)
  BY <1>2, <1>5, PoliciesAreQueues DEF SetRepeatCommand, Shapes
<1>6. CASE SessionCommand(r)
  <2>1. S!Dispatch(r)
    BY <1>6, SessionCommandDispatches
  <2>2. calling' = "intent" /\ seen' \subseteq Requests
    BY <1>6 DEF SessionCommand, Dispatched, Shapes
  <2>3. TokensKept
    BY <2>1, CommandKeepsTokens
  <2>4. activeWorker' \in issued' \cup {NoToken}
    BY <1>6, <2>3 DEF SessionCommand, TokensKept, Shapes
  <2>5. QED
    BY <1>6, <2>1, <2>2, <2>3, <2>4, TokenShapes, KeptShapes
    DEF SessionCommand, SessionMoves
<1>7. QED
  BY <1>1, <1>3, <1>4, <1>5, <1>6

LEMMA PlayShapes ==
  ASSUME Shapes, SessionInv, NEW r \in Requests, NEW item \in Items \cup {NoItem},
         PlayCommand(r, item)
  PROVE  SessionMoves /\ Shapes'
<1> DEFINE chosen == SelectForPlay(item)
<1>1. IsQueue(chosen)
  BY SelectForPlayIsQueue DEF Shapes
<1>2. /\ UNCHANGED <<sound, nextInternal, activeWorker, thenPlay>>
      /\ seen' \subseteq Requests
      /\ IsQueue(queue')
  BY <1>1 DEF PlayCommand, Shapes
<1>3. CASE UNCHANGED <<sessionVars, calling>>
  BY <1>2, <1>3, QuietShapes, KeptShapes DEF PlayCommand, Command
<1>4. CASE /\ chosen.current \in DOMAIN chosen.items
           /\ Dispatched(r, S!DispatchPlay(r, chosen.items[chosen.current]))
  <2>1. chosen.items[chosen.current] \in Items
    BY <1>1, <1>4 DEF IsQueue
  <2> HIDE DEF chosen
  <2>2. S!Dispatch(r) /\ calling' = "intent"
    BY <1>4, <2>1, PlayDispatches DEF Dispatched
  <2>3. TokensKept
    BY <2>2, CommandKeepsTokens
  <2>4. activeWorker' \in issued' \cup {NoToken}
    BY <1>2, <2>3 DEF TokensKept, Shapes
  <2>5. QED
    BY <1>2, <2>2, <2>3, <2>4, TokenShapes, KeptShapes DEF SessionMoves
<1>5. QED
  BY <1>3, <1>4 DEF PlayCommand

\* The ids of a transition are requests, whether there is one left or not.
LEMMA TakenIdShapes ==
  ASSUME Shapes, NEW used \in SUBSET Requests, TakeInternalId(used)
  PROVE  /\ nextInternal' \in 0 .. Cardinality(Requests)
         /\ seen' \subseteq Requests
         /\ ~Exhausted(used) => InternalId(used) \in Requests
<1>1. /\ InternalId(used) \in 0 .. nextInternal
      /\ ~Exhausted(used) => InternalId(used) \in Requests
      /\ nextInternal \in 0 .. Cardinality(Requests)
  BY InternalIdIsNew DEF Shapes
<1>2. Cardinality(Requests) \in Nat
  BY OfflinePipelineAssumption, FS_CardinalityType
<1>3. QED
  BY <1>1, <1>2 DEF TakeInternalId, Exhausted

LEMMA TransitionShapes ==
  ASSUME Shapes, SessionInv, NEW r \in Requests, NEW result, IsSelection(result),
         calling = "idle", Transitioned(r, result)
  PROVE  SessionMoves /\ Shapes'
<1> DEFINE used == seen \cup {r}
<1>1. used \in SUBSET Requests /\ IsQueue(queue')
  BY DEF Shapes, Transitioned, IsSelection
<1>2. CASE Selects(result) /\ SelectTransition(r, result)
  <2>1. [req |-> r, item |-> TrackOf(result)] \in [req : Requests, item : Items]
    BY <1>2, TrackOfIsItem
  <2>2. CASE /\ Silence
             /\ calling' = "then"
             /\ thenPlay' = [req |-> r, item |-> TrackOf(result)]
             /\ seen' = used
             /\ UNCHANGED <<sessionVars, nextInternal, activeWorker>>
    BY <1>1, <2>1, <2>2, QuietShapes, KeptShapes DEF Shapes
  <2>3. CASE /\ TakeInternalId(used)
             /\ Exhausted(used)
             /\ UNCHANGED <<sessionVars, calling, thenPlay>>
             /\ UNCHANGED <<sound, activeWorker>>
    BY <1>1, <2>3, TakenIdShapes, QuietShapes, KeptShapes DEF Shapes
  <2>4. CASE /\ TakeInternalId(used)
             /\ ~Exhausted(used)
             /\ Dispatched(InternalId(used), S!DispatchStop(InternalId(used)))
             /\ thenPlay' = [req |-> r, item |-> TrackOf(result)]
             /\ UNCHANGED <<sound, activeWorker>>
    <3>1. InternalId(used) \in Requests
      BY <1>1, <2>4, TakenIdShapes
    <3>2. S!Dispatch(InternalId(used)) /\ calling' = "intent"
      BY <2>4, <3>1, StopDispatches DEF Dispatched
    <3>3. TokensKept
      BY <3>1, <3>2, CommandKeepsTokens
    <3>4. activeWorker' \in issued' \cup {NoToken}
      BY <2>4, <3>3 DEF TokensKept, Shapes
    <3>5. QED
      BY <1>1, <2>1, <2>4, <3>1, <3>2, <3>3, <3>4, TakenIdShapes, TokenShapes,
         KeptShapes DEF SessionMoves
  <2>5. QED
    BY <1>2, <2>2, <2>3, <2>4 DEF SelectTransition
<1>3. CASE EndTransition(r)
  <2>1. CASE UNCHANGED <<sessionVars, activeWorker>>
    BY <1>1, <1>3, <2>1, QuietShapes, KeptShapes
    DEF EndTransition
  <2>2. CASE activeWorker # NoToken /\ ApplyWorkerEvent("Ended", activeWorker, 0)
    <3>1. activeWorker \in issued /\ "Ended" \in S!EventKinds
      BY <2>2 DEF Shapes, S!EventKinds
    <3>2. /\ S!WorkerEvent /\ TokensKept
          /\ activeWorker' \in issued' \cup {NoToken}
      BY <2>2, <3>1, ZeroIsPosition, ReportIsWorkerEvent
    <3>3. calling' # "fill"
      BY <1>3 DEF EndTransition
    <3>4. QED
      BY <1>1, <1>3, <3>2, <3>3, TokenShapes, KeptShapes DEF EndTransition, SessionMoves
  <2>3. QED
    BY <1>3, <2>1, <2>2 DEF EndTransition
<1>4. CASE /\ seen' = used
           /\ UNCHANGED <<sessionVars, sound, nextInternal, activeWorker, calling,
                          thenPlay>>
  BY <1>1, <1>4, QuietShapes, KeptShapes DEF Shapes
<1>5. QED
  BY <1>2, <1>3, <1>4 DEF Transitioned

LEMMA CallShapes ==
  ASSUME Shapes, PumpCall \/ NoIntentLeft \/ SinkFails
  PROVE  SessionMoves /\ Shapes'
BY QuietShapes, KeptShapes DEF PumpCall, NoIntentLeft, SinkFails, Keeping, ids, sound, Shapes

\* What a report leaves, around it.
LEMMA ReportShapes ==
  ASSUME Shapes, NEW kind \in S!EventKinds, NEW token \in issued,
         NEW pos \in S!Positions, kind # "SeekApplied" => pos = 0,
         ApplyWorkerEvent(kind, token, pos),
         buffer' \in [generation : Nat, frames : Seq(Frames)],
         decoder' \in Decoders \cup {NoDecoder},
         calling' # "fill", Keeping
  PROVE  SessionMoves /\ Shapes'
BY ReportIsWorkerEvent, TokenShapes, KeptShapes DEF SessionMoves, Keeping, ids

LEMMA IntentShapes ==
  ASSUME Shapes, SessionInv,
         \/ ExecuteResolveSource \/ ExecutePrepareBuffer \/ ExecuteSeek
         \/ ExecutePause \/ ExecuteStop
  PROVE  SessionMoves /\ Shapes'
<1>1. /\ calling = "intent"
      /\ Intent # NoIntent
      /\ Intent.token \in issued
      /\ Intent.token.gen \in Nat
      /\ Intent.kind = "ResolveSource" => Intent.item \in Items
  BY DEF Shapes, SessionInv, S!TypeOK, S!Tokens,
     ExecuteResolveSource, ExecutePrepareBuffer, ExecuteSeek, ExecutePause,
     ExecuteStop, Executing
<1>2. ResetBuffer(Intent.token.gen) \in [generation : Nat, frames : Seq(Frames)]
  BY <1>1 DEF ResetBuffer
<1>3. CASE ExecuteResolveSource
  <2>1. CASE decoder' = [item |-> Intent.item, at |-> 0]
             /\ ApplyWorkerEvent("SourceReady", Intent.token, 0)
    <3>1. decoder' \in Decoders
      BY <1>1, <1>3, <2>1, OfflinePipelineAssumption
      DEF Decoders, ExecuteResolveSource, Executing
    <3>2. QED
      BY <1>1, <1>2, <1>3, <2>1, <3>1, ZeroIsPosition, ReportShapes
      DEF ExecuteResolveSource, S!EventKinds
  <2>2. CASE decoder' = NoDecoder
             /\ \E kind \in {"SourceUnavailable", "Failed"} :
                  ApplyWorkerEvent(kind, Intent.token, 0)
    BY <1>1, <1>2, <1>3, <2>2, ZeroIsPosition, ReportShapes
    DEF ExecuteResolveSource, S!EventKinds
  <2>3. QED
    BY <1>3, <2>1, <2>2 DEF ExecuteResolveSource
<1>4. CASE ExecuteSeek
  <2>1. CASE \E pos \in S!Positions :
               /\ decoder # NoDecoder
               /\ decoder' = [decoder EXCEPT !.at = Min({pos, TrackLength})]
               /\ ApplyWorkerEvent("SeekApplied", Intent.token, pos)
    <3>1. PICK pos \in S!Positions :
               /\ decoder' = [decoder EXCEPT !.at = Min({pos, TrackLength})]
               /\ ApplyWorkerEvent("SeekApplied", Intent.token, pos)
      BY <2>1
    <3>2. Min({pos, TrackLength}) \in 0 .. TrackLength
      BY MinOfTwo, OfflinePipelineAssumption, NothingAssumption DEF S!Positions
    <3>3. decoder' \in Decoders
      BY <2>1, <3>1, <3>2 DEF Shapes, Decoders
    <3>4. QED
      BY <1>1, <1>2, <1>4, <3>1, <3>3, ReportShapes DEF ExecuteSeek, S!EventKinds
  <2>2. CASE decoder' = NoDecoder /\ ApplyWorkerEvent("Failed", Intent.token, 0)
    BY <1>1, <1>2, <1>4, <2>2, ZeroIsPosition, ReportShapes
    DEF ExecuteSeek, S!EventKinds
  <2>3. QED
    BY <1>4, <2>1, <2>2 DEF ExecuteSeek
<1>5. CASE ExecutePrepareBuffer
  BY <1>1, <1>2, <1>5, QuietShapes, KeptShapes
  DEF ExecutePrepareBuffer, Executing, Keeping, ids, Shapes
<1>6. CASE ExecutePause \/ ExecuteStop
  BY <1>1, <1>2, <1>6, QuietShapes, KeptShapes
  DEF ExecutePause, ExecuteStop, Keeping, ids, Shapes
<1>7. QED
  BY <1>3, <1>4, <1>5, <1>6

\* A decoder decodes what is left of its track, at most.
LEMMA DecodeSound ==
  ASSUME Shapes, decoder # NoDecoder, NEW n \in 0 .. Room
  PROVE  /\ n \in Nat
         /\ decoder \in Decoders
         /\ decoder.at + n <= TrackLength
         /\ [decoder EXCEPT !.at = @ + n] \in Decoders
         /\ [k \in 1 .. n |-> [item |-> decoder.item, at |-> decoder.at + k - 1]]
              \in Seq(Frames)
<1>1. /\ decoder \in Decoders /\ decoder.at \in 0 .. TrackLength
      /\ decoder.item \in Items
      /\ Len(buffer.frames) \in Nat
  BY DEF Shapes, Decoders
<1>2. Room \in Int /\ Room <= TrackLength - decoder.at
  <2>1. /\ BlockFrames \in Int
        /\ MaxBufferFrames - Len(buffer.frames) \in Int
        /\ TrackLength - decoder.at \in Int
    BY <1>1, OfflinePipelineAssumption
  <2>2. QED
    BY <2>1, MinOfThree DEF Room
<1>3. n \in Nat /\ decoder.at + n \in 0 .. TrackLength
  BY SMTT(30), <1>1, <1>2, OfflinePipelineAssumption
<1>4. [decoder EXCEPT !.at = @ + n] \in Decoders
  BY <1>1, <1>3 DEF Decoders
<1>5. \A k \in 1 .. n : [item |-> decoder.item, at |-> decoder.at + k - 1] \in Frames
  BY SMTT(30), <1>1, <1>3, OfflinePipelineAssumption DEF Frames
<1>6. [k \in 1 .. n |-> [item |-> decoder.item, at |-> decoder.at + k - 1]]
        \in Seq(Frames)
  BY <1>3, <1>5
<1>7. QED
  BY <1>1, <1>3, <1>4, <1>6

LEMMA PumpShapes ==
  ASSUME Shapes, Decode \/ DecodeFails \/ PumpReturns
  PROVE  SessionMoves /\ Shapes'
<1>1. CASE Decode
  <2>1. PICK n \in 0 .. Room :
          /\ decoder' = [decoder EXCEPT !.at = @ + n]
          /\ buffer' = [buffer EXCEPT !.frames =
               @ \o [k \in 1 .. n |->
                       [item |-> decoder.item, at |-> decoder.at + k - 1]]]
    BY <1>1 DEF Decode
  <2>2. decoder # NoDecoder
    BY <1>1 DEF Decode
  <2>3. /\ decoder' \in Decoders
        /\ buffer' \in [generation : Nat, frames : Seq(Frames)]
    <3> DEFINE new == [k \in 1 .. n |->
                         [item |-> decoder.item, at |-> decoder.at + k - 1]]
    <3>1. new \in Seq(Frames) /\ decoder' \in Decoders
      BY <2>1, <2>2, DecodeSound
    <3>2. buffer' = [buffer EXCEPT !.frames = @ \o new]
      BY <2>1
    <3> HIDE DEF new
    <3>3. buffer.frames \o new \in Seq(Frames)
      BY <3>1 DEF Shapes
    <3>4. QED
      BY <3>1, <3>2, <3>3 DEF Shapes
  <2>4. QED
    BY <1>1, <2>3, QuietShapes, KeptShapes DEF Decode, Keeping, ids, Shapes
<1>2. CASE DecodeFails
  BY <1>2, QuietShapes, KeptShapes, ReportShapes, ZeroIsPosition
  DEF DecodeFails, Keeping, ids, Shapes, S!EventKinds
<1>3. CASE PumpReturns
  BY <1>3, QuietShapes, KeptShapes, ReportShapes, ZeroIsPosition
  DEF PumpReturns, Keeping, ids, Shapes, sound, S!EventKinds
<1>4. QED
  BY <1>1, <1>2, <1>3

\* The frames the output takes are some of the prepared ones.
RenderedFrames ==
  IF state = "Playing" THEN Min({OutputFrames, Len(buffer.frames)}) ELSE 0

LEMMA RenderedAreFrames ==
  ASSUME Shapes
  PROVE  RenderedFrames \in 0 .. Len(buffer.frames)
<1>1. Len(buffer.frames) \in Nat /\ OutputFrames \in Nat
  BY OfflinePipelineAssumption DEF Shapes
<1>2. QED
  BY <1>1, MinOfTwo DEF RenderedFrames

LEMMA RenderShapes ==
  ASSUME Shapes, SessionInv, Render
  PROVE  SessionMoves /\ Shapes'
<1> DEFINE n == RenderedFrames
<1>1. /\ IF n = 0 THEN UNCHANGED sessionVars ELSE S!RecordRenderedFrames(n)
      /\ buffer' = [buffer EXCEPT !.frames = SubSeq(@, n + 1, Len(@))]
      /\ calling' = "sink"
      /\ UNCHANGED <<queue, decoder, eof, ids, activeWorker, thenPlay, told>>
  BY DEF Render, RenderedFrames
<1>2. n \in 0 .. Len(buffer.frames)
  BY RenderedAreFrames
<1> HIDE DEF n
<1>3. buffer.frames \in Seq(Frames)
  BY DEF Shapes
<1>4. SubSeq(buffer.frames, n + 1, Len(buffer.frames)) \in Seq(Frames)
  BY <1>2, <1>3
<1>5. /\ buffer' \in [generation : Nat, frames : Seq(Frames)]
      /\ decoder' \in Decoders \cup {NoDecoder}
  BY <1>1, <1>4 DEF Shapes
<1>6. CASE n = 0
  BY <1>1, <1>5, <1>6, QuietShapes, KeptShapes DEF ids, Shapes
<1>7. CASE n # 0
  <2>1. S!RecordRenderedFrames(n)
    BY <1>1, <1>7
  <2>2. n \in 1 .. MaxPosition
    BY <1>2, <1>3, <1>7, <2>1, NothingAssumption
    DEF S!RecordRenderedFrames, SessionInv, S!TypeOK, S!Clocks
  <2>3. UNCHANGED <<update, issued>>
    BY <2>1 DEF S!RecordRenderedFrames
  <2>4. TokensKept /\ activeWorker' \in issued' \cup {NoToken}
    BY <1>1, <2>3 DEF TokensKept, Intent, Shapes
  <2>5. QED
    BY <1>1, <1>5, <2>1, <2>2, <2>4, TokenShapes, KeptShapes DEF SessionMoves, ids
<1>8. QED
  BY <1>6, <1>7

LEMMA SinkTakesShapes ==
  ASSUME Shapes, SinkTakes
  PROVE  SessionMoves /\ Shapes'
<1>1. S!Acknowledge /\ UNCHANGED <<update, issued>>
  BY DEF SinkTakes, S!Acknowledge
<1>2. TokensKept /\ activeWorker' \in issued' \cup {NoToken}
  BY <1>1 DEF TokensKept, Intent, Shapes, SinkTakes
<1>3. calling' # "fill"
  BY DEF SinkTakes
<1>4. QED
  BY <1>1, <1>2, <1>3, TokenShapes, KeptShapes DEF SessionMoves, SinkTakes, ids

LEMMA FinishShapes ==
  ASSUME Shapes, FinishCurrentItem
  PROVE  SessionMoves /\ Shapes'
<1> DEFINE result == AdvanceNext(queue, "Completed")
<1>1. IsSelection(result)
  BY SelectionsAreSelections DEF Shapes
<1>2. calling' # "fill"
  BY DEF FinishCurrentItem
<1>3. CASE activeWorker = NoToken
  BY <1>2, <1>3, QuietShapes, KeptShapes DEF FinishCurrentItem, ids, sound
<1>4. CASE activeWorker # NoToken
  <2>1. /\ ApplyWorkerEvent("Ended", activeWorker, 0)
        /\ IsQueue(queue')
    BY <1>1, <1>4 DEF FinishCurrentItem, IsSelection
  <2>2. /\ S!WorkerEvent /\ TokensKept
        /\ activeWorker' \in issued' \cup {NoToken}
    BY <1>4, <2>1, ReportIsWorkerEvent, ZeroIsPosition DEF Shapes, S!EventKinds
  <2>3. CASE Selects(result)
    <3>1. TrackOf(result) \in Items
      BY <1>1, <2>3, TrackOfIsItem
    <3>2. Silence /\ TakeInternalId(seen)
      BY <1>4, <2>3 DEF FinishCurrentItem
    <3>3. /\ nextInternal' \in 0 .. Cardinality(Requests)
          /\ seen' \subseteq Requests
          /\ ~Exhausted(seen) => InternalId(seen) \in Requests
      BY <3>2, TakenIdShapes DEF Shapes
    <3>4. thenPlay' \in [req : Requests, item : Items] \cup {NoPlay}
      BY <1>4, <2>3, <3>1, <3>3 DEF FinishCurrentItem, Shapes
    <3>5. QED
      BY <1>2, <2>1, <2>2, <3>2, <3>3, <3>4, TokenShapes, KeptShapes DEF SessionMoves
  <2>4. CASE ~Selects(result)
    <3>1. UNCHANGED <<buffer, ids, thenPlay>> /\ decoder' = NoDecoder
      BY <1>4, <2>4 DEF FinishCurrentItem
    <3>2. QED
      BY <1>2, <2>1, <2>2, <3>1, TokenShapes DEF SessionMoves, ids, Shapes
  <2>5. QED
    BY <2>3, <2>4
<1>5. QED
  BY <1>3, <1>4

LEMMA ThenPlayShapes ==
  ASSUME Shapes, SessionInv, ThenPlay
  PROVE  SessionMoves /\ Shapes'
<1>1. calling' # "fill" /\ thenPlay' = NoPlay
  BY DEF ThenPlay, Dispatched
<1>2. CASE thenPlay = NoPlay
  BY <1>1, <1>2, QuietShapes, KeptShapes DEF ThenPlay, ids, sound
<1>3. CASE thenPlay # NoPlay
  <2>1. thenPlay.req \in Requests /\ thenPlay.item \in Items
    BY <1>3 DEF Shapes
  <2>2. S!Dispatch(thenPlay.req)
    BY <1>3, <2>1, PlayDispatches DEF ThenPlay
  <2>3. TokensKept
    BY <2>1, <2>2, CommandKeepsTokens
  <2>4. activeWorker' \in issued' \cup {NoToken}
    BY <2>3 DEF ThenPlay, TokensKept, Shapes
  <2>5. QED
    BY <1>1, <2>1, <2>2, <2>3, <2>4, TokenShapes, KeptShapes
    DEF ThenPlay, SessionMoves, ids
<1>4. QED
  BY <1>2, <1>3
-----------------------------------------------------------------------------
LEMMA StepShapes ==
  ASSUME Shapes, SessionInv, Next
  PROVE  SessionMoves /\ Shapes'
<1>1. CASE \E r \in Requests : Receive(r)
  <2>1. PICK r \in Requests : Receive(r)
    BY <1>1
  <2>2. CASE NextCommand(r)
    BY <2>2, TransitionShapes, SelectionsAreSelections
    DEF NextCommand, Command, Shapes
  <2>3. CASE PreviousCommand(r)
    BY <2>3, TransitionShapes, SelectionsAreSelections
    DEF PreviousCommand, Command, Shapes
  <2>4. QED
    BY <2>1, <2>2, <2>3, CommandShapes, PlayShapes DEF Receive
<1>2. CASE PumpCall \/ Render
  BY <1>2, CallShapes, RenderShapes
<1>3. CASE Continue
  BY <1>3, CallShapes, IntentShapes, PumpShapes, SinkTakesShapes, FinishShapes,
     ThenPlayShapes DEF Continue
<1>4. QED
  BY <1>1, <1>2, <1>3 DEF Next

LEMMA SessionStep ==
  ASSUME SessionMoves
  PROVE  S!Next \/ UNCHANGED S!vars
BY DEF SessionMoves, S!Next, S!vars, S!core, sessionVars

LEMMA ShapesInvariance == Spec => [](SP!IInv /\ Shapes) /\ S!Spec
<1>1. Init => Shapes /\ S!Init
  <2>1. ASSUME Init PROVE Shapes
    <3>1. Cardinality(Requests) \in Nat
      BY OfflinePipelineAssumption, FS_CardinalityType
    <3>2. Intent = NoIntent /\ activeWorker = NoToken /\ thenPlay = NoPlay
      BY <2>1 DEF Init, Intent, S!Init
    <3>3. QED
      BY <2>1, <3>1, <3>2, NewQueueIsQueue DEF Init, Shapes
  <2>2. QED
    BY <2>1 DEF Init
<1>2. S!Init => SP!IInv
  BY SameInit, SP!InitInv, SessionAssumption
<1>3. SP!IInv /\ Shapes /\ [Next]_vars =>
        Shapes' /\ [S!Next]_(S!vars)
  <2> SUFFICES ASSUME SP!IInv, Shapes, [Next]_vars
               PROVE  Shapes' /\ [S!Next]_(S!vars)
    OBVIOUS
  <2>1. CASE Next
    BY <2>1, SessionFacts, StepShapes, SessionStep
  <2>2. CASE UNCHANGED vars
    BY <2>2 DEF vars, sessionVars, sound, ids, call, Shapes, Intent, S!vars, S!core
  <2>3. QED
    BY <2>1, <2>2
<1>4. SP!IInv /\ [S!Next]_(S!vars) => SP!IInv'
  BY SP!NextInv, SessionAssumption, SameNext, SameVars
<1>5. QED
  BY <1>1, <1>2, <1>3, <1>4, PTL DEF Spec, S!Spec

\* The pipeline drives the session only as the session allows: every step of a
\* call is a step of the session alone, or leaves it (pipeline.rs calls nothing
\* of session.rs but dispatch, handle_worker_event, record_rendered_frames and
\* acknowledge_discontinuity).
THEOREM PipelineImplementsSession == Spec => S!Spec
BY ShapesInvariance, PTL

\* So in the pipeline, too, every state has an operation that can end it and the
\* pending one can be answered, every request is resolved once, no retired token
\* moves anything, and a client that polls misses no change.
THEOREM PipelineKeepsTheSession ==
  Spec => /\ []S!PendingIsCurrent
          /\ []S!EveryStateHasAnOwner
          /\ SP!RetiredTokensAreInert
          /\ SP!ImplementsLedger
          /\ SP!ChangesAreTold
<1>1. SP!IInv => S!PendingIsCurrent /\ S!EveryStateHasAnOwner
  BY SessionFacts DEF SessionInv
<1>2. SP!Spec => /\ SP!RetiredTokensAreInert
                 /\ SP!ImplementsLedger
                 /\ SP!ChangesAreTold
  BY SessionAssumption, SP!RetiredInert, SP!SessionImplementsLedger,
     SP!ChangesStayTold
<1>3. QED
  BY <1>1, <1>2, ShapesInvariance, SameSpec, PTL
-----------------------------------------------------------------------------
(* What plays is what was asked for.  A decoder is of the current item, except *)
(* between the Play that changes it and the intent that opens its source; the  *)
(* prepared frames are of the current item and generation when the session     *)
(* plays, and already while its buffer is filled; and a session that plays     *)
(* holds the token of the last report.                                         *)

Heard(item) == \A k \in DOMAIN buffer.frames : buffer.frames[k].item = item

SoundIsCurrent ==
  /\ state = "Playing" =>
       /\ activeWorker = activeToken
       /\ buffer.generation = bufferGeneration
       /\ Heard(currentItem)
       /\ calling # "fill"
       /\ calling = "intent" => Intent = NoIntent
  /\ calling = "fill" => buffer.generation = Intent.token.gen /\ Heard(currentItem)
  /\ decoder # NoDecoder /\ ~Executing("ResolveSource") => decoder.item = currentItem
  /\ Executing("ResolveSource") => Intent.item = currentItem

\* A session that plays after a command played before it, and was asked for no
\* work.
PlayingGoesOn ==
  state' = "Playing" =>
    /\ state = "Playing"
    /\ UNCHANGED <<activeToken, bufferGeneration, currentItem, clock>>
    /\ Intent' = NoIntent

\* An intent is no missing intent.
LEMMA IntentIsIntent ==
  ASSUME SessionInv, NEW r \in Requests, NEW gen \in Nat,
         NEW kind \in {"ResolveSource", "PrepareBuffer", "Seek", "Pause", "Stop"},
         NEW item \in Items \cup {NoItem}, NEW pos \in Nat
  PROVE  /\ S!TokenFor(requests, r, gen) \in S!Tokens
         /\ S!Intent(kind, S!TokenFor(requests, r, gen), item, pos) # NoIntent
<1>1. S!TokenFor(requests, r, gen) \in S!Tokens
  BY DEF SessionInv, S!TypeOK, S!Trackers, S!Tokens, S!TokenFor
<1>2. S!Intent(kind, S!TokenFor(requests, r, gen), item, pos) \in S!Intents
  BY <1>1 DEF S!Intent, S!Intents
<1>3. QED
  BY <1>1, <1>2, NothingAssumption

\* A Play is refused, or makes its item current and asks for its source.
LEMMA PlayEffect ==
  ASSUME SessionInv, NEW r \in Requests, NEW item \in Items,
         S!DispatchPlay(r, item)
  PROVE  \/ /\ UNCHANGED <<state, currentItem, clock, bufferGeneration, pending,
                          activeToken>>
            /\ Intent' = NoIntent
            /\ state \notin S!Playable
         \/ /\ Intent' # NoIntent
            /\ Intent'.kind = "ResolveSource"
            /\ Intent'.item = item
            /\ Intent'.token = S!StartToken(r)
            /\ currentItem' = item
            /\ state' = "Loading"
            /\ state \in S!Playable
            /\ UNCHANGED clock
            /\ S!BeginOperation(r, S!PendingPlay(S!StartToken(r),
                                   state = "Paused" /\ item = currentItem))
<1>1. item # NoItem
  BY NothingAssumption
<1>2. S!StartToken(r).gen \in Nat /\
      S!Intent("ResolveSource", S!StartToken(r), item, 0) # NoIntent
  BY IntentIsIntent DEF S!StartToken, S!NextGeneration, S!TokenFor, SessionInv, S!TypeOK
<1>3. QED
  BY <1>1, <1>2 DEF S!DispatchPlay, S!Reject, S!Return, S!Untouched, S!core,
     S!ReturnIntent, S!Intent, Intent

\* The other commands leave the item, and end what they do not refuse.
LEMMA CommandEffect ==
  ASSUME SessionInv, NEW r \in Requests,
         \/ S!DispatchPause(r) \/ S!DispatchResume(r) \/ S!DispatchStop(r)
         \/ \E pos \in S!Positions : S!DispatchSeek(r, pos)
         \/ \E target \in Requests : S!DispatchCancel(r, target)
  PROVE  /\ PlayingGoesOn
         /\ currentItem' = currentItem
         /\ Intent' # NoIntent => Intent'.kind # "ResolveSource"
<1> USE DEF PlayingGoesOn, Intent, S!Reject, S!Return, S!Untouched, S!core,
            S!ReturnIntent, S!Intent, S!Boundary, S!BeginOperation
<1>1. CASE S!DispatchPause(r)
  BY <1>1 DEF S!DispatchPause
<1>2. CASE S!DispatchResume(r)
  BY <1>2 DEF S!DispatchResume
<1>3. CASE S!DispatchStop(r)
  BY <1>3 DEF S!DispatchStop
<1>4. CASE \E pos \in S!Positions : S!DispatchSeek(r, pos)
  BY <1>4 DEF S!DispatchSeek
<1>5. CASE \E target \in Requests : S!DispatchCancel(r, target)
  BY <1>5 DEF S!DispatchCancel
<1>6. QED
  BY <1>1, <1>2, <1>3, <1>4, <1>5

\* A report changes neither item nor generation.  The session plays after it if
\* it played before, or if its buffer was reported to be ready; and when there is
\* more work to do, it does not play.
LEMMA ReportEffect ==
  ASSUME SessionInv, NEW kind, NEW token, NEW pos,
         S!HandleWorkerEvent(kind, token, pos)
  PROVE  /\ UNCHANGED <<currentItem, bufferGeneration>>
         /\ state' = "Playing" =>
              /\ Intent' = NoIntent
              /\ \/ state = "Playing" /\ UNCHANGED activeToken
                 \/ /\ kind = "PrebufferReady"
                    /\ activeToken' = token
                    /\ token.gen = bufferGeneration
         /\ Intent' # NoIntent => Intent'.kind # "ResolveSource"
<1> USE DEF Intent, S!Return, S!Untouched, S!core, S!ReturnIntent, S!Intent,
            S!UnexpectedEvent
<1>1. CASE S!ActiveTerminalEvent(kind, token)
  BY <1>1 DEF S!ActiveTerminalEvent, S!FromActive, S!TerminalEvents, S!TerminalState
<1>2. CASE S!StaleEvent(kind, token)
  BY <1>2 DEF S!StaleEvent
<1>3. CASE S!SourceReady(token)
  BY <1>3 DEF S!SourceReady
<1>4. CASE kind = "PrebufferReady" /\ S!PrebufferReady(token)
  <2>1. pending # NoPending /\ pending.token = token
    BY <1>4 DEF S!PrebufferReady, S!Expected, S!EventVerdict
  <2>2. token.gen = bufferGeneration
    BY <2>1 DEF SessionInv, S!PendingIsCurrent
  <2>3. QED
    BY <1>4, <2>2 DEF S!PrebufferReady
<1>5. CASE S!SeekApplied(token, pos)
  <2>1. pending # NoPending
    BY <1>5 DEF S!SeekApplied, S!Expected, S!EventVerdict
  <2>2. state # "Playing"
    BY <2>1 DEF SessionInv, S!PendingIsCurrent
  <2>3. QED
    BY <1>5, <2>2 DEF S!SeekApplied
<1>6. CASE S!PendingTerminalEvent(kind, token)
  BY <1>6 DEF S!PendingTerminalEvent, S!TerminalEvents, S!TerminalState
<1>7. QED
  BY <1>1, <1>2, <1>3, <1>4, <1>5, <1>6 DEF S!HandleWorkerEvent
-----------------------------------------------------------------------------
\* Steps around the session and the sound.
LEMMA QuietSound ==
  ASSUME SoundIsCurrent, UNCHANGED <<sessionVars, sound, activeWorker>>,
         ~Executing("ResolveSource"),
         calling' \notin {"fill", "intent"}
  PROVE  SoundIsCurrent'
BY DEF SoundIsCurrent, Heard, Executing, Intent, sessionVars, sound

LEMMA CommandSound ==
  ASSUME SoundIsCurrent, SessionInv, NEW r \in Requests,
         ~Executing("ResolveSource"), calling # "fill",
         \/ S!DispatchPause(r) \/ S!DispatchResume(r) \/ S!DispatchStop(r)
         \/ \E pos \in S!Positions : S!DispatchSeek(r, pos)
         \/ \E target \in Requests : S!DispatchCancel(r, target),
         UNCHANGED <<sound, activeWorker>>, calling' = "intent"
  PROVE  SoundIsCurrent'
<1>1. /\ PlayingGoesOn
      /\ currentItem' = currentItem
      /\ Intent' # NoIntent => Intent'.kind # "ResolveSource"
  BY CommandEffect
<1>2. QED
  BY <1>1 DEF PlayingGoesOn, SoundIsCurrent, Heard, Executing, sound

LEMMA DuplicateSound ==
  ASSUME SoundIsCurrent, NEW r, ~Executing("ResolveSource"), calling # "fill",
         S!DispatchDuplicate(r),
         UNCHANGED <<sound, activeWorker>>, calling' = "intent"
  PROVE  SoundIsCurrent'
BY DEF SoundIsCurrent, Heard, Executing, Intent, sound, S!DispatchDuplicate, S!Return,
   S!Untouched, S!core

LEMMA PlaySound ==
  ASSUME SoundIsCurrent, SessionInv, NEW r \in Requests, NEW item \in Items,
         ~Executing("ResolveSource"), calling # "fill",
         S!DispatchPlay(r, item),
         UNCHANGED <<sound, activeWorker>>, calling' = "intent"
  PROVE  SoundIsCurrent'
<1>1. CASE /\ UNCHANGED <<state, currentItem, bufferGeneration, activeToken>>
           /\ Intent' = NoIntent
  BY <1>1 DEF SoundIsCurrent, Heard, Executing, sound
<1>2. CASE /\ Intent' # NoIntent
           /\ Intent'.kind = "ResolveSource"
           /\ Intent'.item = item
           /\ currentItem' = item
           /\ state' = "Loading"
  BY <1>2 DEF SoundIsCurrent, Executing
<1>3. QED
  BY <1>1, <1>2, PlayEffect

\* The session does not play any more when the pipeline has reported the end.
LEMMA EndIsHandled ==
  ASSUME SessionInv, SoundIsCurrent, activeWorker # NoToken,
         S!HandleWorkerEvent("Ended", activeWorker, 0)
  PROVE  /\ state' # "Playing"
         /\ state = "Playing" => state' = "Ended" /\ Intent' = NoIntent
         /\ UNCHANGED <<currentItem, bufferGeneration>>
<1>1. ASSUME state = "Playing" PROVE state' = "Ended" /\ Intent' = NoIntent
  <2>1. activeToken = activeWorker /\ activeWorker.gen = bufferGeneration
    BY <1>1 DEF SoundIsCurrent, SessionInv, S!EveryStateHasAnOwner
  <2>2. S!FromActive("Ended", activeWorker)
    BY <2>1 DEF S!FromActive, S!TerminalEvents
  <2>3. S!ActiveTerminalEvent("Ended", activeWorker)
    BY <2>2 DEF S!HandleWorkerEvent, S!StaleEvent, S!SourceReady, S!PrebufferReady,
       S!SeekApplied, S!PendingTerminalEvent, S!Expected
  <2>4. QED
    BY <2>1, <2>3 DEF S!ActiveTerminalEvent, S!TerminalState, S!Return, Intent
<1>2. state' = "Playing" => state = "Playing"
  BY ReportEffect
<1>3. QED
  BY <1>1, <1>2, ReportEffect

LEMMA EndSound ==
  ASSUME SessionInv, SoundIsCurrent, activeWorker # NoToken,
         S!HandleWorkerEvent("Ended", activeWorker, 0),
         decoder' = NoDecoder, calling' \notin {"fill", "intent"}
  PROVE  SoundIsCurrent'
BY EndIsHandled DEF SoundIsCurrent, Executing

LEMMA ReceiveSound ==
  ASSUME Shapes, SessionInv, SoundIsCurrent, NEW r \in Requests, calling = "idle",
         \/ DuplicateCommand(r)
         \/ \E q : OnQueue(r, q)
         \/ SessionCommand(r)
         \/ \E item \in Items \cup {NoItem} : PlayCommand(r, item)
  PROVE  SoundIsCurrent'
<1>1. ~Executing("ResolveSource") /\ calling # "fill"
  BY DEF Executing
<1>2. CASE DuplicateCommand(r) \/ \E q : OnQueue(r, q)
  BY <1>1, <1>2, QuietSound DEF DuplicateCommand, OnQueue
<1>3. CASE SessionCommand(r)
  BY <1>1, <1>3, CommandSound, DuplicateSound DEF SessionCommand, Dispatched
<1>4. CASE \E item \in Items \cup {NoItem} : PlayCommand(r, item)
  <2>1. PICK item \in Items \cup {NoItem} : PlayCommand(r, item)
    BY <1>4
  <2> DEFINE chosen == SelectForPlay(item)
  <2>2. CASE UNCHANGED <<sessionVars, calling>>
    BY <1>1, <2>1, <2>2, QuietSound DEF PlayCommand
  <2>3. CASE /\ chosen.current \in DOMAIN chosen.items
             /\ Dispatched(r, S!DispatchPlay(r, chosen.items[chosen.current]))
    <3>1. chosen.items[chosen.current] \in Items
      BY <2>3, SelectForPlayIsQueue DEF IsQueue, Shapes
    <3>2. UNCHANGED <<sound, activeWorker>>
      BY <2>1 DEF PlayCommand
    <3> HIDE DEF chosen
    <3>3. QED
      BY <1>1, <2>3, <3>1, <3>2, PlaySound, DuplicateSound DEF Dispatched
  <2>4. QED
    BY <2>1, <2>2, <2>3 DEF PlayCommand
<1>5. QED
  BY <1>2, <1>3, <1>4

LEMMA TransitionSound ==
  ASSUME Shapes, SessionInv, SoundIsCurrent, NEW r \in Requests, NEW result,
         calling = "idle", Transitioned(r, result)
  PROVE  SoundIsCurrent'
<1>1. ~Executing("ResolveSource") /\ calling # "fill"
  BY DEF Executing
<1>2. CASE SelectTransition(r, result)
  <2> DEFINE id == InternalId(seen \cup {r})
  <2>1. CASE state \in AtRest /\ Silence /\ calling' = "then" /\ UNCHANGED sessionVars
    BY <2>1 DEF AtRest, S!TerminalStates, Silence, SoundIsCurrent, Executing, sessionVars
  <2>2. CASE UNCHANGED <<sessionVars, calling>> /\ UNCHANGED <<sound, activeWorker>>
    BY <1>1, <2>2, QuietSound
  <2>3. CASE /\ ~Exhausted(seen \cup {r})
             /\ Dispatched(id, S!DispatchStop(id))
             /\ UNCHANGED <<sound, activeWorker>>
    <3>1. id \in Requests
      BY <2>3, InternalIdIsNew DEF Shapes
    <3>2. QED
      BY <1>1, <2>3, <3>1, CommandSound, DuplicateSound DEF Dispatched
  <2>4. QED
    BY <1>2, <2>1, <2>2, <2>3 DEF SelectTransition
<1>3. CASE EndTransition(r)
  <2>1. CASE activeWorker = NoToken /\ UNCHANGED <<sessionVars, activeWorker>>
    <3>1. state # "Playing"
      BY <2>1 DEF SoundIsCurrent, SessionInv, S!EveryStateHasAnOwner
    <3>2. QED
      BY <1>3, <2>1, <3>1 DEF EndTransition, Silence, SoundIsCurrent, Executing, sessionVars
  <2>2. CASE activeWorker # NoToken
    BY <1>3, <2>2, EndSound DEF EndTransition, ApplyWorkerEvent, Silence
  <2>3. QED
    BY <1>3, <2>1, <2>2 DEF EndTransition
<1>4. CASE UNCHANGED <<sessionVars, sound, nextInternal, activeWorker, calling, thenPlay>>
  BY <1>1, <1>4, QuietSound
<1>5. QED
  BY <1>2, <1>3, <1>4 DEF Transitioned

\* A report of anything but a ready buffer, while the session does not play.
LEMMA ReportSound ==
  ASSUME SessionInv, state # "Playing", NEW kind, NEW token, NEW pos,
         kind # "PrebufferReady",
         S!HandleWorkerEvent(kind, token, pos),
         decoder' = NoDecoder \/ decoder'.item = currentItem,
         calling' # "fill"
  PROVE  SoundIsCurrent'
<1>1. /\ currentItem' = currentItem
      /\ state' # "Playing"
      /\ Intent' # NoIntent => Intent'.kind # "ResolveSource"
  BY ReportEffect
<1>2. QED
  BY <1>1 DEF SoundIsCurrent, Executing

LEMMA IntentSound ==
  ASSUME Shapes, SessionInv, SoundIsCurrent,
         \/ ExecuteResolveSource \/ ExecutePrepareBuffer \/ ExecuteSeek
         \/ ExecutePause \/ ExecuteStop
  PROVE  SoundIsCurrent'
<1>1. calling = "intent" /\ Intent # NoIntent /\ state # "Playing"
  BY DEF SoundIsCurrent, ExecuteResolveSource, ExecutePrepareBuffer, ExecuteSeek,
     ExecutePause, ExecuteStop, Executing
<1>2. CASE ExecuteResolveSource
  <2>1. calling' = "intent" /\ Intent.item = currentItem
    BY <1>1, <1>2 DEF ExecuteResolveSource, SoundIsCurrent
  <2>2. CASE decoder' = [item |-> Intent.item, at |-> 0]
             /\ ApplyWorkerEvent("SourceReady", Intent.token, 0)
    BY <1>1, <2>1, <2>2, ReportSound DEF ApplyWorkerEvent
  <2>3. CASE decoder' = NoDecoder
             /\ \E kind \in {"SourceUnavailable", "Failed"} :
                  ApplyWorkerEvent(kind, Intent.token, 0)
    BY <1>1, <2>1, <2>3, ReportSound DEF ApplyWorkerEvent
  <2>4. QED
    BY <1>2, <2>2, <2>3 DEF ExecuteResolveSource
<1>3. CASE ExecuteSeek
  <2>1. calling' = "intent" /\ ~Executing("ResolveSource")
    BY <1>1, <1>3 DEF ExecuteSeek, Executing
  <2>2. CASE \E pos \in S!Positions :
               /\ decoder # NoDecoder
               /\ decoder' = [decoder EXCEPT !.at = Min({pos, TrackLength})]
               /\ ApplyWorkerEvent("SeekApplied", Intent.token, pos)
    <3>1. decoder'.item = currentItem
      BY <2>1, <2>2 DEF SoundIsCurrent, Shapes, Decoders
    <3>2. QED
      BY <1>1, <2>1, <2>2, <3>1, ReportSound DEF ApplyWorkerEvent
  <2>3. CASE decoder' = NoDecoder /\ ApplyWorkerEvent("Failed", Intent.token, 0)
    BY <1>1, <2>1, <2>3, ReportSound DEF ApplyWorkerEvent
  <2>4. QED
    BY <1>3, <2>2, <2>3 DEF ExecuteSeek
<1>4. CASE ExecutePrepareBuffer
  BY <1>1, <1>4 DEF ExecutePrepareBuffer, Executing, ResetBuffer, SoundIsCurrent,
     Heard, Intent, sessionVars
<1>5. CASE ExecutePause \/ ExecuteStop
  BY <1>1, <1>5 DEF ExecutePause, ExecuteStop, Executing, SoundIsCurrent, sessionVars
<1>6. QED
  BY <1>2, <1>3, <1>4, <1>5

LEMMA DecodeHeard ==
  ASSUME Shapes, Decode, Heard(decoder.item)
  PROVE  /\ Heard(decoder.item)'
         /\ decoder'.item = decoder.item
         /\ buffer'.generation = buffer.generation
<1>1. PICK n \in 0 .. Room :
        /\ decoder' = [decoder EXCEPT !.at = @ + n]
        /\ buffer' = [buffer EXCEPT !.frames =
             @ \o [k \in 1 .. n |->
                     [item |-> decoder.item, at |-> decoder.at + k - 1]]]
  BY DEF Decode
<1>2. /\ decoder # NoDecoder
      /\ n \in Nat
      /\ decoder \in Decoders
  BY <1>1, DecodeSound DEF Decode
<1> DEFINE new == [k \in 1 .. n |-> [item |-> decoder.item, at |-> decoder.at + k - 1]]
<1>3. new \in Seq(Frames) /\ Len(new) = n
  BY <1>1, <1>2, DecodeSound
<1>4. \A k \in 1 .. n : new[k].item = decoder.item
  OBVIOUS
<1>5. /\ buffer'.frames = buffer.frames \o new
      /\ buffer'.generation = buffer.generation
      /\ buffer.frames \in Seq(Frames)
  BY <1>1 DEF Shapes
<1>6. decoder'.item = decoder.item
  BY <1>1, <1>2 DEF Decoders
<1> HIDE DEF new
<1>7. \A k \in DOMAIN buffer'.frames : buffer'.frames[k].item = decoder.item
  BY <1>3, <1>4, <1>5, <1>2 DEF Heard
<1>8. QED
  BY <1>5, <1>6, <1>7 DEF Heard

LEMMA PumpSound ==
  ASSUME Shapes, SessionInv, SoundIsCurrent, Decode \/ DecodeFails \/ PumpReturns
  PROVE  SoundIsCurrent'
<1>1. /\ calling \in {"pump", "fill"}
      /\ ~Executing("ResolveSource")
      /\ calling = "fill" => Intent # NoIntent /\ state # "Playing"
      /\ decoder # NoDecoder => decoder.item = currentItem
  BY DEF Decode, DecodeFails, PumpReturns, Pumping, Executing, SoundIsCurrent, Shapes
<1>2. CASE Decode
  <2>1. UNCHANGED <<sessionVars, activeWorker, calling>> /\ decoder # NoDecoder
    BY <1>2 DEF Decode
  <2>2. state = "Playing" \/ calling = "fill" => Heard(currentItem)
    BY DEF SoundIsCurrent
  <2>3. /\ decoder'.item = currentItem
        /\ buffer'.generation = buffer.generation
        /\ Heard(currentItem) => Heard(currentItem)'
    <3>1. PICK n \in 0 .. Room : decoder' = [decoder EXCEPT !.at = @ + n]
      BY <1>2 DEF Decode
    <3>2. decoder'.item = currentItem /\ currentItem' = currentItem
      BY <1>1, <2>1, <3>1, DecodeSound DEF Decoders, sessionVars
    <3>3. buffer'.generation = buffer.generation
      BY <1>2 DEF Decode, Shapes
    <3>4. Heard(currentItem) => Heard(currentItem)'
      BY <1>1, <1>2, <2>1, <3>2, DecodeHeard DEF Heard
    <3>5. QED
      BY <3>2, <3>3, <3>4
  <2>4. QED
    BY <1>1, <2>1, <2>2, <2>3 DEF SoundIsCurrent, Executing, Intent, sessionVars
<1>3. CASE DecodeFails
  <2>1. CASE calling = "fill"
    BY <1>1, <1>3, <2>1, ReportSound DEF DecodeFails, ApplyWorkerEvent
  <2>2. CASE calling # "fill"
    BY <1>1, <1>3, <2>2
    DEF DecodeFails, SoundIsCurrent, Heard, Executing, Intent, sessionVars
  <2>3. QED
    BY <2>1, <2>2
<1>4. CASE PumpReturns
  <2>1. CASE calling = "fill" /\ decoder # NoDecoder
    <3>1. /\ S!HandleWorkerEvent("PrebufferReady", Intent.token, 0)
          /\ activeWorker' = IF state' \in S!TerminalStates THEN NoToken ELSE Intent.token
          /\ calling' = "intent"
          /\ UNCHANGED sound
      BY <1>4, <2>1 DEF PumpReturns, ApplyWorkerEvent
    <3>2. /\ UNCHANGED <<currentItem, bufferGeneration>>
          /\ Intent' # NoIntent => Intent'.kind # "ResolveSource"
          /\ state' = "Playing" =>
               /\ Intent' = NoIntent
               /\ activeToken' = Intent.token
               /\ Intent.token.gen = bufferGeneration
      BY <1>1, <2>1, <3>1, ReportEffect
    <3>3. state' = "Playing" => activeWorker' = activeToken'
      BY <3>1, <3>2 DEF S!TerminalStates
    <3>4. buffer.generation = Intent.token.gen /\ Heard(currentItem)
      BY <2>1 DEF SoundIsCurrent
    <3>5. QED
      BY <1>1, <3>1, <3>2, <3>3, <3>4 DEF SoundIsCurrent, Heard, Executing, sound
  <2>2. CASE ~(calling = "fill" /\ decoder # NoDecoder)
    BY <1>1, <1>4, <2>2, QuietSound DEF PumpReturns
  <2>3. QED
    BY <2>1, <2>2
<1>5. QED
  BY <1>2, <1>3, <1>4

LEMMA RenderSound ==
  ASSUME Shapes, SoundIsCurrent, Render
  PROVE  SoundIsCurrent'
<1> DEFINE n == RenderedFrames
<1>1. /\ IF n = 0 THEN UNCHANGED sessionVars ELSE S!RecordRenderedFrames(n)
      /\ buffer' = [buffer EXCEPT !.frames = SubSeq(@, n + 1, Len(@))]
      /\ calling' = "sink" /\ calling = "idle"
      /\ UNCHANGED <<queue, decoder, eof, ids, activeWorker, thenPlay, told>>
  BY DEF Render, RenderedFrames
<1>2. n \in 0 .. Len(buffer.frames)
  BY RenderedAreFrames
<1> HIDE DEF n
<1>3. UNCHANGED <<state, currentItem, bufferGeneration, activeToken>>
  BY <1>1 DEF sessionVars, S!RecordRenderedFrames
<1>4. Heard(currentItem) => Heard(currentItem)'
  BY <1>1, <1>2, <1>3 DEF Heard, Shapes
<1>5. buffer'.generation = buffer.generation
  BY <1>1 DEF Shapes
<1>6. QED
  BY <1>1, <1>3, <1>4, <1>5 DEF SoundIsCurrent, Executing

LEMMA OtherSound ==
  ASSUME Shapes, SessionInv, SoundIsCurrent,
         PumpCall \/ NoIntentLeft \/ SinkFails \/ SinkTakes \/ FinishCurrentItem \/ ThenPlay
  PROVE  SoundIsCurrent'
<1>1. CASE PumpCall \/ NoIntentLeft \/ SinkFails
  BY <1>1, QuietSound DEF PumpCall, NoIntentLeft, SinkFails, Executing
<1>2. CASE SinkTakes
  <2>1. UNCHANGED <<state, currentItem, bufferGeneration, activeToken, update>>
    BY <1>2 DEF SinkTakes, S!Acknowledge
  <2>2. QED
    BY <1>2, <2>1 DEF SinkTakes, SoundIsCurrent, Heard, Executing, Intent, sound
<1>3. CASE FinishCurrentItem
  <2>1. calling' \in {"idle", "then"} /\ ~Executing("ResolveSource")
    BY <1>3 DEF FinishCurrentItem, Executing
  <2>2. CASE activeWorker = NoToken
    BY <1>3, <2>1, <2>2, QuietSound DEF FinishCurrentItem
  <2>3. CASE activeWorker # NoToken
    BY <1>3, <2>1, <2>3, EndSound DEF FinishCurrentItem, ApplyWorkerEvent, Silence
  <2>4. QED
    BY <2>2, <2>3
<1>4. CASE ThenPlay
  <2>1. ~Executing("ResolveSource") /\ calling # "fill"
    BY <1>4 DEF ThenPlay, Executing
  <2>2. CASE thenPlay = NoPlay
    BY <1>4, <2>1, <2>2, QuietSound DEF ThenPlay
  <2>3. CASE thenPlay # NoPlay
    <3>1. thenPlay.req \in Requests /\ thenPlay.item \in Items
      BY <2>3 DEF Shapes
    <3>2. QED
      BY <1>4, <2>1, <2>3, <3>1, PlaySound, DuplicateSound DEF ThenPlay, Dispatched
  <2>4. QED
    BY <2>2, <2>3
<1>5. QED
  BY <1>1, <1>2, <1>3, <1>4

LEMMA StepSound ==
  ASSUME Shapes, SessionInv, SoundIsCurrent, [Next]_vars
  PROVE  SoundIsCurrent'
<1>1. CASE \E r \in Requests : Receive(r)
  <2>1. PICK r \in Requests : Receive(r)
    BY <1>1
  <2>2. calling = "idle"
    BY <2>1 DEF Receive, DuplicateCommand, SetQueueCommand, SetShuffleCommand,
       SetRepeatCommand, PlayCommand, SessionCommand, NextCommand, PreviousCommand,
       Command
  <2>3. CASE NextCommand(r) \/ PreviousCommand(r)
    BY <2>2, <2>3, TransitionSound DEF NextCommand, PreviousCommand
  <2>4. QED
    BY <2>1, <2>2, <2>3, ReceiveSound
    DEF Receive, SetQueueCommand, SetShuffleCommand, SetRepeatCommand
<1>2. CASE PumpCall \/ Render \/ Continue
  BY <1>2, OtherSound, RenderSound, IntentSound, PumpSound DEF Continue
<1>3. CASE UNCHANGED vars
  BY <1>3 DEF vars, sessionVars, sound, ids, call, SoundIsCurrent, Heard, Executing, Intent
<1>4. QED
  BY <1>1, <1>2, <1>3 DEF Next

LEMMA SoundInvariance == Spec => []SoundIsCurrent
<1>1. Init => SoundIsCurrent
  BY DEF Init, S!Init, SoundIsCurrent, Executing
<1>2. SP!IInv /\ Shapes /\ SoundIsCurrent /\ [Next]_vars => SoundIsCurrent'
  BY SessionFacts, StepSound
<1>3. QED
  BY <1>1, <1>2, ShapesInvariance, PTL DEF Spec

\* Nothing that was decoded before the operation that plays is ever heard, for
\* any length of tracks and buffers (pipeline.rs, PcmBuffer and its generation).
THEOREM FramesStayWithOperation == Spec => []FramesBelongToOperation
<1>1. SoundIsCurrent => FramesBelongToOperation
  BY DEF SoundIsCurrent, FramesBelongToOperation, Heard
<1>2. QED
  BY <1>1, SoundInvariance, PTL

\* The end of the track that plays will be accepted (pipeline.rs,
\* apply_worker_event and finish_current_item).
THEOREM EndStaysAccepted == Spec => []EndIsAccepted
<1>1. SoundIsCurrent => EndIsAccepted
  BY DEF SoundIsCurrent, EndIsAccepted
<1>2. QED
  BY <1>1, SoundInvariance, PTL
-----------------------------------------------------------------------------
(* A transition plays its track.  The Stop in between and the Play that waits   *)
(* are given to the session under ids it has not seen; the Play waits only where *)
(* the session can take it; and from there the worker's reports are accepted.   *)

IdsKnown ==
  /\ update.result # "DuplicateRequest"
  /\ \A r \in Requests : S!Contains(requests, r) => r \in seen
  /\ thenPlay # NoPlay =>
       thenPlay.req \in seen /\ ~S!Contains(requests, thenPlay.req)

\* The session has learned of no requests but these.
LearnsOnly(new) ==
  \A r \in Requests : S!Contains(requests', r) => S!Contains(requests, r) \/ r \in new

LEMMA CommandIds ==
  ASSUME SessionInv, NEW r \in Requests, S!Fresh(r), S!Dispatch(r)
  PROVE  update'.result # "DuplicateRequest" /\ LearnsOnly({r})
<1>1. requests \in S!Trackers
  BY DEF SessionInv, S!TypeOK
<1>2. ASSUME NEW st, requests' = S!Record(requests, r, st)
      PROVE  LearnsOnly({r})
  BY <1>1, <1>2 DEF LearnsOnly, S!Contains, S!Record, S!Trackers
<1>3. CASE S!DispatchDuplicate(r)
  BY <1>3 DEF S!DispatchDuplicate, S!Fresh
<1>4. CASE \E i \in Items \cup {NoItem} : S!DispatchPlay(r, i)
  BY <1>2, <1>4 DEF S!DispatchPlay, S!Reject, S!RecordRejected, S!Return,
     S!BeginOperation, S!Start, S!ReturnIntent
<1>5. CASE S!DispatchPause(r) \/ S!DispatchStop(r)
  BY <1>2, <1>5 DEF S!DispatchPause, S!DispatchStop, S!Reject, S!RecordRejected,
     S!RecordApplied, S!Return, S!ReturnIntent
<1>6. CASE S!DispatchResume(r) \/ \E pos \in S!Positions : S!DispatchSeek(r, pos)
  BY <1>2, <1>6 DEF S!DispatchResume, S!DispatchSeek, S!Reject, S!RecordRejected,
     S!RecordApplied, S!Return, S!BeginOperation, S!Start, S!ReturnIntent
<1>7. CASE \E target \in Requests : S!DispatchCancel(r, target)
  <2>1. PICK target \in Requests : S!DispatchCancel(r, target)
    BY <1>7
  <2>2. CASE S!Reject(r, "UnknownCancellationTarget")
    BY <1>2, <2>2 DEF S!Reject, S!RecordRejected, S!Return
  <2>3. CASE /\ S!CancellationOutcome(requests, target) # "UnknownRequest"
             /\ requests' = S!RecordApplied(S!Cancel(requests, target), r)
             /\ S!Return(S!CancellationOutcome(requests, target))
    <3>1. S!Contains(requests, target)
      BY <2>3 DEF S!CancellationOutcome, S!Contains
    <3>2. \A x \in Requests :
            /\ requests'.records[x].st # "Unseen" => x \in {r, target} \/ S!Contains(requests, x)
      BY <1>1, <2>3 DEF S!RecordApplied, S!Record, S!Cancel, S!Resolve, S!Trackers,
         S!Contains
    <3>3. update'.result # "DuplicateRequest"
      BY <2>3 DEF S!Return, S!CancellationOutcome
    <3>4. QED
      BY <3>1, <3>2, <3>3 DEF LearnsOnly, S!Contains
  <2>4. QED
    BY <2>1, <2>2, <2>3 DEF S!DispatchCancel
<1>8. CASE S!DispatchQueueCommand(r)
  BY <1>2, <1>8 DEF S!DispatchQueueCommand, S!Reject, S!RecordRejected, S!Return
<1>9. QED
  BY <1>3, <1>4, <1>5, <1>6, <1>7, <1>8 DEF S!Dispatch

LEMMA ReportIds ==
  ASSUME SessionInv, NEW kind, NEW token \in S!Tokens, NEW pos,
         S!HandleWorkerEvent(kind, token, pos)
  PROVE  update'.result # "DuplicateRequest" /\ LearnsOnly({})
<1>1. requests \in S!Trackers /\ token.req \in Requests
  BY DEF SessionInv, S!TypeOK, S!Tokens
<1>2. requests' = requests \/ requests' = S!MarkApplied(requests, token.req)
  BY DEF S!HandleWorkerEvent, S!ActiveTerminalEvent, S!StaleEvent, S!SourceReady,
     S!PrebufferReady, S!SeekApplied, S!PendingTerminalEvent, S!UnexpectedEvent
<1>3. LearnsOnly({})
  BY <1>1, <1>2 DEF LearnsOnly, S!Contains, S!MarkApplied, S!Resolve, S!Trackers
<1>4. update'.result # "DuplicateRequest"
  BY DEF S!HandleWorkerEvent, S!ActiveTerminalEvent, S!StaleEvent, S!SourceReady,
     S!PrebufferReady, S!SeekApplied, S!PendingTerminalEvent, S!UnexpectedEvent,
     S!Return, S!ReturnIntent, S!EventVerdict, S!Classify
<1>5. QED
  BY <1>3, <1>4

\* The ids stay known when the session learns only of ids the pipeline keeps, and
\* the Play that waits is not among them.
LEMMA IdsStay ==
  ASSUME Shapes, IdsKnown, update'.result # "DuplicateRequest",
         NEW new, LearnsOnly(new), new \subseteq seen', seen \subseteq seen',
         \/ thenPlay' = NoPlay
         \/ thenPlay' = thenPlay /\ new \cap seen = {}
         \/ /\ thenPlay'.req \in Requests /\ thenPlay'.req \in seen'
            /\ thenPlay'.req \notin new /\ thenPlay'.req \notin seen
  PROVE  IdsKnown'
<1>1. thenPlay # NoPlay => thenPlay.req \in Requests
  BY DEF Shapes
<1>2. \A r \in Requests : S!Contains(requests', r) => r \in seen'
  BY DEF IdsKnown, LearnsOnly
<1>3. QED
  BY <1>1, <1>2 DEF IdsKnown, LearnsOnly

LEMMA QuietIds ==
  ASSUME Shapes, IdsKnown, UNCHANGED <<update, requests>>, seen \subseteq seen',
         \/ thenPlay' \in {thenPlay, NoPlay}
         \/ /\ thenPlay'.req \in Requests /\ thenPlay'.req \in seen'
            /\ thenPlay'.req \notin seen
  PROVE  IdsKnown'
<1>1. LearnsOnly({})
  BY DEF LearnsOnly
<1>2. QED
  BY <1>1, IdsStay DEF IdsKnown

\* A command under an id that was not known is new to the session.
LEMMA UnseenIsFresh ==
  ASSUME IdsKnown, NEW r \in Requests, r \notin seen
  PROVE  S!Fresh(r)
BY DEF IdsKnown, S!Fresh

LEMMA ReportedIds ==
  ASSUME Shapes, SessionInv, IdsKnown, NEW kind, NEW token \in issued, NEW pos,
         ApplyWorkerEvent(kind, token, pos), seen \subseteq seen',
         \/ thenPlay' \in {thenPlay, NoPlay}
         \/ /\ thenPlay'.req \in Requests /\ thenPlay'.req \in seen'
            /\ thenPlay'.req \notin seen
  PROVE  IdsKnown'
<1>1. S!HandleWorkerEvent(kind, token, pos) /\ token \in S!Tokens
  BY DEF ApplyWorkerEvent, SessionInv, S!TypeOK
<1>2. update'.result # "DuplicateRequest" /\ LearnsOnly({})
  BY <1>1, ReportIds
<1>3. QED
  BY <1>2, IdsStay

LEMMA ReceiveIds ==
  ASSUME Shapes, SessionInv, IdsKnown, NEW r \in Requests,
         \/ DuplicateCommand(r)
         \/ \E q : OnQueue(r, q)
         \/ SessionCommand(r)
         \/ \E item \in Items \cup {NoItem} : PlayCommand(r, item)
  PROVE  IdsKnown'
<1>1. CASE DuplicateCommand(r) \/ \E q : OnQueue(r, q)
  BY <1>1, QuietIds DEF DuplicateCommand, OnQueue, sessionVars, ids
<1>2. CASE SessionCommand(r)
  <2>1. r \notin seen /\ seen' = seen \cup {r} /\ thenPlay' = thenPlay
    BY <1>2 DEF SessionCommand, Command
  <2>2. S!Dispatch(r) /\ S!Fresh(r)
    BY <1>2, <2>1, SessionCommandDispatches, UnseenIsFresh
  <2>3. update'.result # "DuplicateRequest" /\ LearnsOnly({r})
    BY <2>2, CommandIds
  <2>4. QED
    BY <2>1, <2>3, IdsStay
<1>3. CASE \E item \in Items \cup {NoItem} : PlayCommand(r, item)
  <2>1. PICK item \in Items \cup {NoItem} : PlayCommand(r, item)
    BY <1>3
  <2> DEFINE chosen == SelectForPlay(item)
  <2>2. r \notin seen /\ seen' = seen \cup {r} /\ thenPlay' = thenPlay
    BY <2>1 DEF PlayCommand, Command
  <2>3. CASE UNCHANGED <<sessionVars, calling>>
    BY <2>2, <2>3, QuietIds DEF sessionVars
  <2>4. CASE /\ chosen.current \in DOMAIN chosen.items
             /\ Dispatched(r, S!DispatchPlay(r, chosen.items[chosen.current]))
    <3>1. chosen.items[chosen.current] \in Items
      BY <2>4, SelectForPlayIsQueue DEF IsQueue, Shapes
    <3> HIDE DEF chosen
    <3>2. S!Dispatch(r) /\ S!Fresh(r)
      BY <2>2, <2>4, <3>1, PlayDispatches, UnseenIsFresh
    <3>3. update'.result # "DuplicateRequest" /\ LearnsOnly({r})
      BY <3>2, CommandIds
    <3>4. QED
      BY <2>2, <3>3, IdsStay
  <2>5. QED
    BY <2>1, <2>3, <2>4 DEF PlayCommand
<1>4. QED
  BY <1>1, <1>2, <1>3

LEMMA TransitionIds ==
  ASSUME Shapes, SessionInv, IdsKnown, NEW r \in Requests, r \notin seen, NEW result,
         Transitioned(r, result)
  PROVE  IdsKnown'
<1> DEFINE used == seen \cup {r}
           id   == InternalId(used)
<1>1. CASE SelectTransition(r, result)
  <2>1. CASE /\ thenPlay' = [req |-> r, item |-> TrackOf(result)]
             /\ seen' = used
             /\ UNCHANGED sessionVars
    BY <2>1, QuietIds DEF sessionVars
  <2>2. CASE /\ TakeInternalId(used)
             /\ UNCHANGED <<sessionVars, calling, thenPlay>>
    BY <2>2, QuietIds DEF TakeInternalId, sessionVars
  <2>3. CASE /\ TakeInternalId(used)
             /\ ~Exhausted(used)
             /\ Dispatched(id, S!DispatchStop(id))
             /\ thenPlay' = [req |-> r, item |-> TrackOf(result)]
    <3>1. id \in Requests /\ id \notin used /\ seen' = used \cup {id}
      BY <2>3, InternalIdIsNew DEF Shapes, TakeInternalId
    <3>2. S!Dispatch(id) /\ S!Fresh(id)
      BY <2>3, <3>1, StopDispatches, UnseenIsFresh
    <3>3. update'.result # "DuplicateRequest" /\ LearnsOnly({id})
      BY <3>1, <3>2, CommandIds
    <3> HIDE DEF id
    <3>4. QED
      BY <2>3, <3>1, <3>3, IdsStay
  <2>4. QED
    BY <1>1, <2>1, <2>2, <2>3 DEF SelectTransition
<1>2. CASE EndTransition(r)
  <2>1. CASE UNCHANGED <<sessionVars, activeWorker>>
    BY <1>2, <2>1, QuietIds DEF EndTransition, sessionVars
  <2>2. CASE activeWorker # NoToken
    BY <1>2, <2>2, ReportedIds DEF EndTransition, Shapes
  <2>3. QED
    BY <1>2, <2>1, <2>2 DEF EndTransition
<1>3. CASE /\ seen' = used
           /\ UNCHANGED <<sessionVars, thenPlay>>
  BY <1>3, QuietIds DEF sessionVars
<1>4. QED
  BY <1>1, <1>2, <1>3 DEF Transitioned

LEMMA ContinueIds ==
  ASSUME Shapes, SessionInv, IdsKnown, PumpCall \/ Render \/ Continue
  PROVE  IdsKnown'
<1>1. CASE PumpCall \/ NoIntentLeft \/ SinkFails \/ ExecutePrepareBuffer
           \/ ExecutePause \/ ExecuteStop \/ Decode
  BY <1>1, QuietIds DEF PumpCall, NoIntentLeft, SinkFails, ExecutePrepareBuffer,
     ExecutePause, ExecuteStop, Decode, Keeping, ids, sessionVars
<1>2. CASE Render \/ SinkTakes
  BY <1>2, QuietIds DEF Render, SinkTakes, S!RecordRenderedFrames, S!Acknowledge,
     ids, sessionVars
<1>3. CASE ExecuteResolveSource \/ ExecuteSeek
  BY <1>3, ReportedIds DEF ExecuteResolveSource, ExecuteSeek, Executing, Keeping, ids,
     Shapes
<1>4. CASE DecodeFails \/ PumpReturns
  BY <1>4, ReportedIds, QuietIds DEF DecodeFails, PumpReturns, Keeping, ids,
     sessionVars, Shapes
<1>5. CASE FinishCurrentItem
  <2>1. CASE activeWorker = NoToken
    BY <1>5, <2>1, QuietIds DEF FinishCurrentItem, sessionVars, ids
  <2>2. CASE activeWorker # NoToken
    <3>1. ApplyWorkerEvent("Ended", activeWorker, 0) /\ activeWorker \in issued
      BY <1>5, <2>2 DEF FinishCurrentItem, Shapes
    <3>2. InternalId(seen) \in Requests \ seen \/ Exhausted(seen)
      BY InternalIdIsNew DEF Shapes
    <3>3. /\ seen \subseteq seen'
          /\ \/ thenPlay' \in {thenPlay, NoPlay}
             \/ /\ thenPlay'.req \in Requests /\ thenPlay'.req \in seen'
                /\ thenPlay'.req \notin seen
      BY <1>5, <2>2, <3>2 DEF FinishCurrentItem, TakeInternalId, ids
    <3>4. QED
      BY <3>1, <3>3, ReportedIds
  <2>3. QED
    BY <2>1, <2>2
<1>6. CASE ThenPlay
  <2>1. CASE thenPlay = NoPlay
    BY <1>6, <2>1, QuietIds DEF ThenPlay, sessionVars, ids
  <2>2. CASE thenPlay # NoPlay
    <3>1. thenPlay.req \in Requests /\ thenPlay.item \in Items
      BY <2>2 DEF Shapes
    <3>2. S!Dispatch(thenPlay.req) /\ S!Fresh(thenPlay.req) /\ thenPlay.req \in seen
      BY <1>6, <2>2, <3>1, PlayDispatches DEF ThenPlay, IdsKnown, S!Fresh
    <3>3. update'.result # "DuplicateRequest" /\ LearnsOnly({thenPlay.req})
      BY <3>1, <3>2, CommandIds
    <3>4. QED
      BY <1>6, <3>2, <3>3, IdsStay DEF ThenPlay, ids
  <2>3. QED
    BY <2>1, <2>2
<1>7. QED
  BY <1>1, <1>2, <1>3, <1>4, <1>5, <1>6 DEF Continue

LEMMA StepIds ==
  ASSUME Shapes, SessionInv, IdsKnown, [Next]_vars
  PROVE  IdsKnown'
<1>1. CASE \E r \in Requests : Receive(r)
  <2>1. PICK r \in Requests : Receive(r)
    BY <1>1
  <2>2. CASE NextCommand(r) \/ PreviousCommand(r)
    BY <2>2, TransitionIds DEF NextCommand, PreviousCommand, Command
  <2>3. QED
    BY <2>1, <2>2, ReceiveIds
    DEF Receive, SetQueueCommand, SetShuffleCommand, SetRepeatCommand
<1>2. CASE PumpCall \/ Render \/ Continue
  BY <1>2, ContinueIds
<1>3. CASE UNCHANGED vars
  BY <1>3, QuietIds DEF vars, sessionVars, ids, call
<1>4. QED
  BY <1>1, <1>2, <1>3 DEF Next
-----------------------------------------------------------------------------
SelectedTold == told.kind \in {"Selected", "RestartCurrent"}

\* The session waits for the answer to the intent the pipeline works on.
PlayUnderWay(kind, waiting) ==
  /\ Intent # NoIntent /\ Intent.kind = kind
  /\ pending # NoPending /\ pending.kind = "Play"
  /\ Intent.token = pending.token
  /\ state = waiting

\* What a track that was told can have become.
Settled == state \in {"Playing", "Failed", "Unavailable"}

TransitionUnderWay ==
  /\ calling = "finish" => state = "Playing"
  /\ thenPlay # NoPlay =>
       /\ calling = "then" \/ Executing("Stop")
       /\ state \in AtRest
       /\ SelectedTold => thenPlay.item = queue.items[told.index]
  /\ SelectedTold /\ thenPlay = NoPlay =>
       /\ currentItem = queue.items[told.index]
       /\ \/ calling = "intent" /\ PlayUnderWay("ResolveSource", "Loading")
          \/ /\ calling \in {"intent", "fill"}
             /\ PlayUnderWay("PrepareBuffer", "Buffering")
             /\ decoder # NoDecoder
          \/ /\ calling = "intent" => Intent = NoIntent
             /\ calling # "fill"
             /\ Settled

\* The pending operation can be answered.
LEMMA AnswerIsExpected ==
  ASSUME SessionInv, pending # NoPending, NEW kind
  PROVE  S!Expected(kind, pending.token)
<1>1. S!Classify(requests, pending.token, bufferGeneration) = "Accepted"
  BY DEF SessionInv, S!PendingIsCurrent, S!Classify, S!Cancelled
<1>2. activeToken # pending.token
  BY NothingAssumption
  DEF SessionInv, S!EveryStateHasAnOwner, S!TypeOK, S!PendingOperations
<1>3. QED
  BY <1>1, <1>2 DEF S!Expected, S!EventVerdict, S!FromActive

LEMMA AnswerEffect ==
  ASSUME SessionInv, pending # NoPending, pending.kind = "Play", NEW kind,
         S!HandleWorkerEvent(kind, pending.token, 0)
  PROVE  /\ currentItem' = currentItem
         /\ kind = "SourceReady" => PlayUnderWay("PrepareBuffer", "Buffering")'
         /\ kind = "PrebufferReady" => state' = "Playing" /\ Intent' = NoIntent
         /\ kind \in {"SourceUnavailable", "Failed"} =>
              state' \in {"Unavailable", "Failed"} /\ Intent' = NoIntent
<1>1. /\ ~S!ActiveTerminalEvent(kind, pending.token)
      /\ ~S!StaleEvent(kind, pending.token)
  BY AnswerIsExpected DEF S!Expected, S!ActiveTerminalEvent, S!StaleEvent
<1>2. pending.token \in S!Tokens /\ clock.position \in Nat
      /\ currentItem \in Items \cup {NoItem}
  BY DEF SessionInv, S!TypeOK, S!PendingOperations, S!Clocks
<1>3. CASE kind = "SourceReady" /\ S!SourceReady(pending.token)
  <2>1. S!Intent("PrepareBuffer", pending.token, currentItem, clock.position) # NoIntent
    BY <1>2, NothingAssumption DEF S!Intent, S!Intents
  <2>2. QED
    BY <1>3, <2>1 DEF S!SourceReady, S!ReturnIntent, S!Intent, Intent, PlayUnderWay
<1>4. CASE kind = "PrebufferReady" /\ S!PrebufferReady(pending.token)
  BY <1>4 DEF S!PrebufferReady, S!Return, Intent
<1>5. CASE S!PendingTerminalEvent(kind, pending.token)
  BY <1>5 DEF S!PendingTerminalEvent, S!TerminalEvents, S!TerminalState, S!Return, Intent
<1>6. CASE kind = "SeekApplied" /\ S!SeekApplied(pending.token, 0)
  BY <1>6 DEF S!SeekApplied, S!UnexpectedEvent, S!Untouched, S!core
<1>7. QED
  BY <1>1, <1>3, <1>4, <1>5, <1>6 DEF S!HandleWorkerEvent

\* Where nothing was told and no Play waits there is nothing to show.
LEMMA UntoldStep ==
  ASSUME told' = NoTransition \/ told'.kind \in {"Ended", "Empty"},
         thenPlay' = NoPlay, calling' # "finish"
  PROVE  TransitionUnderWay'
BY DEF TransitionUnderWay, SelectedTold, NoTransition, NoTrack

\* Between calls no Play waits.
LEMMA NothingWaits ==
  ASSUME TransitionUnderWay, calling \in {"idle", "sink", "pump", "fill", "finish"}
  PROVE  thenPlay = NoPlay
BY DEF TransitionUnderWay, Executing

\* A step that leaves session, queue and what was told.
LEMMA SettledStep ==
  ASSUME TransitionUnderWay,
         UNCHANGED <<state, currentItem, update, queue, thenPlay, told>>,
         ~Executing("Stop"),
         calling # "then" \/ thenPlay = NoPlay,
         calling \in {"idle", "sink", "pump", "then", "finish"},
         calling' \notin {"fill", "intent"},
         calling' = "finish" => state = "Playing"
  PROVE  TransitionUnderWay'
BY DEF TransitionUnderWay, SelectedTold, Executing, Settled, AtRest, Intent

LEMMA ReceiveTransition ==
  ASSUME TransitionUnderWay, NEW r \in Requests,
         \/ DuplicateCommand(r)
         \/ \E items \in SeqOf(Items, MaxItems), current \in 0 .. MaxItems :
              SetQueueCommand(r, items, current)
         \/ \E on \in BOOLEAN, seed \in Seeds : SetShuffleCommand(r, on, seed)
         \/ \E mode \in RepeatModes : SetRepeatCommand(r, mode)
         \/ SessionCommand(r)
         \/ \E item \in Items \cup {NoItem} : PlayCommand(r, item)
  PROVE  TransitionUnderWay'
<1>1. calling = "idle" /\ calling' # "finish" /\ thenPlay' = thenPlay
      /\ told' = NoTransition
  BY DEF DuplicateCommand, SetQueueCommand, SetShuffleCommand, SetRepeatCommand,
     SessionCommand, PlayCommand, Command, OnQueue, Dispatched, Tell
<1>2. QED
  BY <1>1, NothingWaits, UntoldStep

\* The Stop of a transition takes the session to rest.
LEMMA StopEffect ==
  ASSUME SessionInv, NEW r \in Requests, S!DispatchStop(r), state \notin AtRest
  PROVE  /\ state' = "Stopped"
         /\ Intent' # NoIntent /\ Intent'.kind = "Stop"
<1>1. S!NextGeneration \in Nat
  BY DEF SessionInv, S!TypeOK, S!NextGeneration
<1>2. S!Intent("Stop", S!TokenFor(requests, r, S!NextGeneration), NoItem, 0) # NoIntent
  BY <1>1, IntentIsIntent
<1>3. QED
  BY <1>2 DEF S!DispatchStop, S!Boundary, S!ReturnIntent, S!Intent, Intent, AtRest

LEMMA SelectTransitionStep ==
  ASSUME Shapes, SessionInv, IdsKnown, TransitionUnderWay, NEW r \in Requests,
         r \notin seen, NEW result, calling = "idle",
         IsSelection(result), queue' = result.queue, Selects(result),
         SelectTransition(r, result)
  PROVE  TransitionUnderWay'
<1> DEFINE used == seen \cup {r}
           id   == InternalId(used)
           play == [req |-> r, item |-> TrackOf(result)]
<1>0. play # NoPlay
  BY TrackOfIsItem, NothingAssumption
<1>1. CASE /\ state \in AtRest
           /\ calling' = "then"
           /\ thenPlay' = play
           /\ told' = result.transition
           /\ UNCHANGED sessionVars
  <2>1. thenPlay'.item = queue'.items[told'.index] /\ state' \in AtRest
    BY <1>1 DEF TrackOf, sessionVars, AtRest
  <2>2. thenPlay' # NoPlay
    BY <1>0, <1>1
  <2>3. QED
    BY <1>1, <2>1, <2>2 DEF TransitionUnderWay
<1>2. CASE told' = NoTransition /\ UNCHANGED <<calling, thenPlay>>
  BY <1>2, NothingWaits, UntoldStep
<1>3. CASE /\ state \notin AtRest
           /\ ~Exhausted(used)
           /\ Dispatched(id, S!DispatchStop(id))
           /\ thenPlay' = play
           /\ told' = result.transition
  <2>1. id \in Requests /\ S!Fresh(id)
    BY <1>3, InternalIdIsNew, UnseenIsFresh DEF Shapes
  <2> HIDE DEF id
  <2>2. /\ state' = "Stopped" /\ calling' = "intent"
        /\ Intent' # NoIntent /\ Intent'.kind = "Stop"
    BY <1>3, <2>1, StopEffect DEF Dispatched
  <2>3. thenPlay'.item = queue'.items[told'.index] /\ state' \in AtRest'
    BY <1>3, <2>2 DEF TrackOf, AtRest
  <2>4. thenPlay' # NoPlay
    BY <1>0, <1>3
  <2>5. QED
    BY <2>2, <2>3, <2>4 DEF TransitionUnderWay, Executing
<1>4. QED
  BY <1>1, <1>2, <1>3 DEF SelectTransition, Tell

LEMMA MoveTransition ==
  ASSUME Shapes, SessionInv, IdsKnown, TransitionUnderWay, NEW r \in Requests,
         r \notin seen, NEW result, IsSelection(result), calling = "idle",
         Transitioned(r, result)
  PROVE  TransitionUnderWay'
<1>1. thenPlay = NoPlay
  BY NothingWaits
<1>2. CASE Selects(result) /\ SelectTransition(r, result)
  BY <1>2, SelectTransitionStep DEF Transitioned
<1>3. CASE result.transition.kind = "Ended" /\ EndTransition(r) /\ Tell(result.transition)
  BY <1>1, <1>3, UntoldStep DEF EndTransition, Tell
<1>4. CASE /\ result.transition.kind = "Empty"
           /\ Tell(result.transition)
           /\ UNCHANGED <<calling, thenPlay>>
  BY <1>1, <1>4, UntoldStep DEF Tell
<1>5. QED
  BY <1>2, <1>3, <1>4 DEF Transitioned

\* Work on an intent that is no part of a transition.
LEMMA UntoldWork ==
  ASSUME ~SelectedTold, thenPlay = NoPlay, UNCHANGED <<told, thenPlay>>,
         calling' # "finish"
  PROVE  TransitionUnderWay'
BY DEF TransitionUnderWay, SelectedTold

LEMMA IntentTransition ==
  ASSUME Shapes, SessionInv, TransitionUnderWay,
         \/ ExecuteResolveSource \/ ExecutePrepareBuffer \/ ExecuteSeek
         \/ ExecutePause \/ ExecuteStop
  PROVE  TransitionUnderWay'
<1>1. /\ calling = "intent" /\ Intent # NoIntent
      /\ calling' # "finish"
      /\ UNCHANGED <<queue, thenPlay, told>>
  BY DEF ExecuteResolveSource, ExecutePrepareBuffer, ExecuteSeek, ExecutePause,
     ExecuteStop, Executing, Keeping
<1>2. CASE ExecuteStop
  <2>1. CASE thenPlay = NoPlay
    BY <1>1, <1>2, <2>1, UntoldWork
    DEF ExecuteStop, Executing, TransitionUnderWay, PlayUnderWay
  <2>2. CASE thenPlay # NoPlay
    <3>1. calling' = "then" /\ UNCHANGED state
      BY <1>2 DEF ExecuteStop, sessionVars
    <3>2. QED
      BY <1>1, <2>2, <3>1 DEF TransitionUnderWay, SelectedTold, AtRest
  <2>3. QED
    BY <2>1, <2>2
<1>3. CASE ~ExecuteStop
  <2>1. ~Executing("Stop")
    BY <1>3 DEF Executing, ExecuteResolveSource, ExecutePrepareBuffer, ExecuteSeek,
       ExecutePause
  <2>2. thenPlay = NoPlay
    BY <1>1, <2>1 DEF TransitionUnderWay
  <2>3. CASE ~SelectedTold
    BY <1>1, <2>2, <2>3, UntoldWork
  <2>4. CASE SelectedTold /\ ExecuteResolveSource
    <3>1. /\ currentItem = queue.items[told.index]
          /\ PlayUnderWay("ResolveSource", "Loading")
      BY <1>1, <2>2, <2>4
      DEF TransitionUnderWay, ExecuteResolveSource, Executing, PlayUnderWay
    <3>2. pending # NoPending /\ pending.kind = "Play" /\ Intent.token = pending.token
      BY <3>1 DEF PlayUnderWay
    <3>3. calling' = "intent"
      BY <1>1, <2>4 DEF ExecuteResolveSource
    <3>4. CASE decoder' = [item |-> Intent.item, at |-> 0]
               /\ ApplyWorkerEvent("SourceReady", Intent.token, 0)
      <4>1. /\ currentItem' = currentItem
            /\ PlayUnderWay("PrepareBuffer", "Buffering")'
        BY <3>2, <3>4, AnswerEffect DEF ApplyWorkerEvent
      <4>2. decoder' # NoDecoder
        <5>1. Intent.item \in Items
          BY <2>4 DEF Shapes, ExecuteResolveSource, Executing
        <5>2. decoder' \in Decoders
          BY <3>4, <5>1, OfflinePipelineAssumption DEF Decoders
        <5>3. QED
          BY <5>2, NothingAssumption
      <4>3. QED
        BY <1>1, <2>2, <3>1, <3>3, <4>1, <4>2 DEF TransitionUnderWay
    <3>5. CASE \E kind \in {"SourceUnavailable", "Failed"} :
                 ApplyWorkerEvent(kind, Intent.token, 0)
      <4>1. /\ currentItem' = currentItem
            /\ state' \in {"Unavailable", "Failed"} /\ Intent' = NoIntent
        BY <3>2, <3>5, AnswerEffect DEF ApplyWorkerEvent
      <4>2. QED
        BY <1>1, <2>2, <3>1, <3>3, <4>1 DEF TransitionUnderWay, Settled
    <3>6. QED
      BY <2>4, <3>4, <3>5 DEF ExecuteResolveSource
  <2>5. CASE SelectedTold /\ ExecutePrepareBuffer
    <3>1. /\ currentItem = queue.items[told.index]
          /\ PlayUnderWay("PrepareBuffer", "Buffering")
          /\ decoder # NoDecoder
      BY <1>1, <2>2, <2>5
      DEF TransitionUnderWay, ExecutePrepareBuffer, Executing, PlayUnderWay
    <3>2. calling' = "fill" /\ UNCHANGED <<sessionVars, decoder>>
      BY <2>5 DEF ExecutePrepareBuffer
    <3>3. QED
      BY <1>1, <2>2, <3>1, <3>2
      DEF TransitionUnderWay, PlayUnderWay, Intent, sessionVars
  <2>6. CASE SelectedTold /\ (ExecuteSeek \/ ExecutePause)
    BY <1>1, <2>2, <2>6
    DEF TransitionUnderWay, ExecuteSeek, ExecutePause, Executing, PlayUnderWay
  <2>7. QED
    BY <1>3, <2>3, <2>4, <2>5, <2>6
<1>4. QED
  BY <1>2, <1>3

LEMMA PumpTransition ==
  ASSUME Shapes, SessionInv, TransitionUnderWay, Decode \/ DecodeFails \/ PumpReturns
  PROVE  TransitionUnderWay'
<1>1. /\ calling \in {"pump", "fill"} /\ calling' # "finish"
      /\ thenPlay = NoPlay
      /\ UNCHANGED <<queue, thenPlay, told>>
  BY NothingWaits DEF Decode, DecodeFails, PumpReturns, Pumping, Keeping
<1>2. CASE ~SelectedTold
  BY <1>1, <1>2, UntoldWork
<1>3. CASE SelectedTold /\ calling = "pump"
  <2>1. UNCHANGED sessionVars /\ calling' \in {"pump", "idle"}
    BY <1>3 DEF Decode, DecodeFails, PumpReturns
  <2>2. QED
    BY <1>1, <1>3, <2>1, SettledStep DEF sessionVars, Executing
<1>4. CASE SelectedTold /\ calling = "fill"
  <2>1. /\ currentItem = queue.items[told.index]
        /\ PlayUnderWay("PrepareBuffer", "Buffering")
        /\ decoder # NoDecoder
    BY <1>1, <1>4 DEF TransitionUnderWay
  <2>2. pending # NoPending /\ pending.kind = "Play" /\ Intent.token = pending.token
    BY <2>1 DEF PlayUnderWay
  <2>3. CASE Decode
    <3>1. decoder' # NoDecoder
      <4>1. PICK n \in 0 .. Room : decoder' = [decoder EXCEPT !.at = @ + n]
        BY <2>3 DEF Decode
      <4>2. decoder' \in Decoders
        BY <2>1, <4>1, DecodeSound
      <4>3. QED
        BY <4>2, NothingAssumption
    <3>2. UNCHANGED <<sessionVars, calling>>
      BY <2>3 DEF Decode
    <3>3. QED
      BY <1>1, <1>4, <2>1, <3>1, <3>2
      DEF TransitionUnderWay, PlayUnderWay, Intent, sessionVars
  <2>4. CASE DecodeFails
    <3>1. ApplyWorkerEvent("Failed", Intent.token, 0) /\ calling' = "intent"
      BY <1>4, <2>4 DEF DecodeFails
    <3>2. /\ currentItem' = currentItem
          /\ state' \in {"Unavailable", "Failed"} /\ Intent' = NoIntent
      BY <2>2, <3>1, AnswerEffect DEF ApplyWorkerEvent
    <3>3. QED
      BY <1>1, <2>1, <3>1, <3>2 DEF TransitionUnderWay, Settled
  <2>5. CASE PumpReturns
    <3>1. ApplyWorkerEvent("PrebufferReady", Intent.token, 0) /\ calling' = "intent"
      BY <1>4, <2>1, <2>5 DEF PumpReturns
    <3>2. currentItem' = currentItem /\ state' = "Playing" /\ Intent' = NoIntent
      BY <2>2, <3>1, AnswerEffect DEF ApplyWorkerEvent
    <3>3. QED
      BY <1>1, <2>1, <3>1, <3>2 DEF TransitionUnderWay, Settled
  <2>6. QED
    BY <2>3, <2>4, <2>5
<1>5. QED
  BY <1>1, <1>2, <1>3, <1>4

LEMMA FinishTransition ==
  ASSUME Shapes, SessionInv, SoundIsCurrent, TransitionUnderWay, FinishCurrentItem
  PROVE  TransitionUnderWay'
<1>1. /\ told' = NoTransition /\ calling = "finish" /\ calling' \in {"idle", "then"}
      /\ thenPlay = NoPlay /\ state = "Playing"
  BY NothingWaits DEF FinishCurrentItem, Tell, TransitionUnderWay
<1>2. CASE thenPlay' = NoPlay
  BY <1>1, <1>2, UntoldStep
<1>3. CASE thenPlay' # NoPlay
  <2>1. activeWorker # NoToken /\ calling' = "then"
        /\ S!HandleWorkerEvent("Ended", activeWorker, 0)
    BY <1>1, <1>3 DEF FinishCurrentItem, ApplyWorkerEvent
  <2>2. state' = "Ended"
    BY <1>1, <2>1, EndIsHandled
  <2>3. QED
    BY <1>1, <2>1, <2>2
    DEF TransitionUnderWay, SelectedTold, NoTransition, NoTrack, AtRest,
        S!TerminalStates
<1>4. QED
  BY <1>2, <1>3

LEMMA ThenPlayTransition ==
  ASSUME Shapes, SessionInv, IdsKnown, TransitionUnderWay, ThenPlay
  PROVE  TransitionUnderWay'
<1>1. calling = "then" /\ thenPlay' = NoPlay /\ UNCHANGED <<queue, told>>
  BY DEF ThenPlay
<1>2. CASE thenPlay = NoPlay
  <2>1. calling' = "idle" /\ UNCHANGED sessionVars
    BY <1>2 DEF ThenPlay
  <2>2. QED
    BY <1>1, <1>2, <2>1, SettledStep DEF sessionVars, Executing
<1>3. CASE thenPlay # NoPlay
  <2> DEFINE r == thenPlay.req
             item == thenPlay.item
  <2>1. /\ r \in Requests /\ item \in Items
        /\ S!DispatchPlay(r, item) /\ calling' = "intent"
    BY <1>3 DEF Shapes, ThenPlay, Dispatched, IdsKnown, S!Fresh
  <2>2. /\ state \in S!Playable
        /\ SelectedTold => item = queue.items[told.index]
    BY <1>3 DEF TransitionUnderWay, AtRest, S!TerminalStates, S!Playable
  <2> HIDE DEF r, item
  <2>3. /\ Intent' # NoIntent
        /\ Intent'.kind = "ResolveSource"
        /\ Intent'.token = S!StartToken(r)
        /\ currentItem' = item
        /\ state' = "Loading"
        /\ pending' = S!PendingPlay(S!StartToken(r),
                                    state = "Paused" /\ item = currentItem)
    BY <2>1, <2>2, PlayEffect DEF S!BeginOperation
  <2>4. S!StartToken(r) \in S!Tokens
    BY <2>1, IntentIsIntent DEF S!StartToken, S!NextGeneration, SessionInv, S!TypeOK
  <2>5. /\ pending' \in S!PendingOperations
        /\ pending'.kind = "Play" /\ pending'.token = S!StartToken(r)
    BY <2>3, <2>4 DEF S!PendingPlay, S!PendingOperations, S!SessionStates
  <2>6. PlayUnderWay("ResolveSource", "Loading")'
    BY <2>3, <2>5, NothingAssumption DEF PlayUnderWay
  <2>7. QED
    BY <1>1, <2>1, <2>2, <2>3, <2>6 DEF TransitionUnderWay, SelectedTold
<1>4. QED
  BY <1>2, <1>3

LEMMA OtherTransition ==
  ASSUME Shapes, TransitionUnderWay,
         PumpCall \/ Render \/ NoIntentLeft \/ SinkFails \/ SinkTakes
  PROVE  TransitionUnderWay'
<1>1. CASE PumpCall \/ SinkFails
  BY <1>1, SettledStep DEF PumpCall, SinkFails, sessionVars, Executing
<1>2. CASE Render \/ SinkTakes
  BY <1>2, SettledStep DEF Render, SinkTakes, S!RecordRenderedFrames, S!Acknowledge,
     sessionVars, Executing
<1>3. CASE NoIntentLeft
  BY <1>3 DEF NoIntentLeft, Keeping, sessionVars, TransitionUnderWay, SelectedTold,
     Executing, PlayUnderWay, Settled, AtRest, Intent
<1>4. QED
  BY <1>1, <1>2, <1>3

LEMMA StepTransition ==
  ASSUME Shapes, SessionInv, SoundIsCurrent, IdsKnown, TransitionUnderWay, [Next]_vars
  PROVE  TransitionUnderWay'
<1>1. CASE \E r \in Requests : Receive(r)
  <2>1. PICK r \in Requests : Receive(r)
    BY <1>1
  <2>2. CASE NextCommand(r) \/ PreviousCommand(r)
    BY <2>2, MoveTransition, SelectionsAreSelections
    DEF NextCommand, PreviousCommand, Command, Shapes
  <2>3. QED
    BY <2>1, <2>2, ReceiveTransition DEF Receive
<1>2. CASE PumpCall \/ Render \/ Continue
  BY <1>2, OtherTransition, IntentTransition, PumpTransition, FinishTransition,
     ThenPlayTransition DEF Continue
<1>3. CASE UNCHANGED vars
  BY <1>3 DEF vars, sessionVars, call, sound, TransitionUnderWay, SelectedTold, Executing,
     PlayUnderWay, Settled, AtRest, Intent
<1>4. QED
  BY <1>1, <1>2, <1>3 DEF Next

LEMMA TransitionInvariance == Spec => [](IdsKnown /\ TransitionUnderWay)
<1>1. Init => IdsKnown /\ TransitionUnderWay
  BY DEF Init, S!Init, IdsKnown, TransitionUnderWay, SelectedTold, NoTrack,
     S!NewTracker, S!Contains
<1>2. SP!IInv /\ Shapes /\ SoundIsCurrent /\ IdsKnown /\ TransitionUnderWay /\ [Next]_vars
        => IdsKnown' /\ TransitionUnderWay'
  BY SessionFacts, StepIds, StepTransition
<1>3. QED
  BY <1>1, <1>2, ShapesInvariance, SoundInvariance, PTL DEF Spec

\* When Next or Previous has returned a track it plays, or the session says why it
\* cannot, whatever ids the callers choose (pipeline.rs, select_transition,
\* stop_for_transition and next_internal_request_id).
THEOREM TransitionsPlayTheirTrack == Spec => []TransitionPlaysItsTrack
<1>1. IdsKnown /\ TransitionUnderWay => TransitionPlaysItsTrack
  BY DEF IdsKnown, TransitionUnderWay, TransitionPlaysItsTrack, SelectedTold, Settled,
     Idle
<1>2. QED
  BY <1>1, TransitionInvariance, PTL
-----------------------------------------------------------------------------
(* What is heard is where the clock is, as long as nothing is paused: a pause    *)
(* throws the prepared frames away and leaves the decoder behind them.  From a   *)
(* base on, the prepared frames and then the decoder follow without a gap, or    *)
(* the decoder stands at the end of its track with nothing to decode.            *)

FollowsFrom(base) ==
  /\ \A k \in DOMAIN buffer.frames : buffer.frames[k].at = base + k - 1
  /\ decoder # NoDecoder =>
       \/ decoder.at = base + Len(buffer.frames)
       \/ decoder.at = TrackLength /\ buffer.frames = <<>>

\* Where the clock will be when the operation is activated.
StartOf(operation) == IF operation.kind = "Play" THEN 0 ELSE clock.position

Pauseless ==
  /\ state # "Paused"
  /\ pending # NoPending =>
       pending.kind # "Resume" /\ ~pending.resumes /\ pending.prior # "Paused"

SoundFollowsClock ==
  /\ state = "Playing" => FollowsFrom(clock.position)
  /\ pending # NoPending /\ Intent # NoIntent /\ Intent.token = pending.token =>
       /\ calling = "fill" => FollowsFrom(StartOf(pending))
       /\ Executing("PrepareBuffer") /\ decoder # NoDecoder =>
            decoder.at \in {StartOf(pending), TrackLength}

\* Commands, but Pause.
LEMMA PauselessCommand ==
  ASSUME Pauseless, NEW r,
         \/ S!DispatchResume(r) \/ S!DispatchStop(r)
         \/ \E pos \in S!Positions : S!DispatchSeek(r, pos)
         \/ \E target \in Requests : S!DispatchCancel(r, target)
  PROVE  /\ Pauseless'
         /\ Intent' # NoIntent => Intent'.kind # "PrepareBuffer"
<1> USE DEF Pauseless, Intent, S!Reject, S!Return, S!Untouched, S!core,
            S!ReturnIntent, S!Intent, S!Boundary, S!BeginOperation
<1>1. CASE S!DispatchResume(r)
  BY <1>1 DEF S!DispatchResume
<1>2. CASE S!DispatchStop(r)
  BY <1>2 DEF S!DispatchStop
<1>3. CASE \E pos \in S!Positions : S!DispatchSeek(r, pos)
  BY <1>3 DEF S!DispatchSeek, S!PendingSeek
<1>4. CASE \E target \in Requests : S!DispatchCancel(r, target)
  BY <1>4 DEF S!DispatchCancel
<1>5. QED
  BY <1>1, <1>2, <1>3, <1>4

LEMMA PauselessPlay ==
  ASSUME Pauseless, SessionInv, NEW r \in Requests, NEW item \in Items,
         S!DispatchPlay(r, item)
  PROVE  /\ Pauseless'
         /\ PlayingGoesOn
         /\ Intent' # NoIntent => Intent'.kind # "PrepareBuffer"
<1>1. CASE /\ UNCHANGED <<state, currentItem, clock, bufferGeneration, pending,
                           activeToken>>
           /\ Intent' = NoIntent
  BY <1>1 DEF Pauseless, PlayingGoesOn
<1>2. CASE /\ Intent' # NoIntent
           /\ Intent'.kind = "ResolveSource"
           /\ state' = "Loading"
           /\ S!BeginOperation(r, S!PendingPlay(S!StartToken(r),
                                  state = "Paused" /\ item = currentItem))
  <2>1. ~(state = "Paused" /\ item = currentItem)
    BY DEF Pauseless
  <2>2. pending' = S!PendingPlay(S!StartToken(r), FALSE)
    BY <1>2, <2>1 DEF S!BeginOperation
  <2>3. QED
    BY <1>2, <2>2 DEF Pauseless, PlayingGoesOn, S!PendingPlay
<1>3. QED
  BY <1>1, <1>2, PlayEffect

LEMMA PauselessReport ==
  ASSUME Pauseless, SessionInv, NEW kind, NEW token, NEW pos,
         S!HandleWorkerEvent(kind, token, pos)
  PROVE  /\ Pauseless'
         /\ state' = "Playing" =>
              \/ state = "Playing" /\ clock' = clock
              \/ /\ kind = "PrebufferReady"
                 /\ pending # NoPending /\ token = pending.token
                 /\ clock'.position = StartOf(pending)
         /\ Intent' # NoIntent =>
              \/ kind = "SourceReady" /\ pending'.kind = "Play"
              \/ /\ kind = "SeekApplied" /\ pending'.kind = "Seek"
                 /\ clock'.position = pos
<1>1. CASE S!ActiveTerminalEvent(kind, token)
  BY <1>1 DEF S!ActiveTerminalEvent, S!FromActive, S!TerminalEvents, S!TerminalState,
     Pauseless, Intent, S!Return, S!Untouched, S!core
<1>2. CASE S!StaleEvent(kind, token)
  BY <1>2 DEF S!StaleEvent, Pauseless, Intent, S!Return, S!Untouched, S!core
<1>3. CASE kind = "SourceReady" /\ S!SourceReady(token)
  BY <1>3 DEF S!SourceReady, S!UnexpectedEvent, Pauseless, Intent, S!Return, S!Untouched,
     S!core
<1>4. CASE kind = "PrebufferReady" /\ S!PrebufferReady(token)
  <2>1. pending # NoPending /\ pending.token = token /\ pending \in S!PendingOperations
    BY <1>4 DEF S!PrebufferReady, S!Expected, S!EventVerdict, SessionInv, S!TypeOK
  <2>2. /\ pending.kind \in {"Play", "Seek"} /\ pending.resumes = FALSE
        /\ pending.prior # "Paused"
    BY <2>1 DEF Pauseless, S!PendingOperations
  <2>3. S!ActivationClock(pending).position = StartOf(pending)
    <3>1. CASE pending.kind = "Play"
      <4>1. S!ActivationClock(pending) = S!SourceTransition(clock, 0)
        BY <2>2, <3>1 DEF S!ActivationClock
      <4>2. QED
        BY <3>1, <4>1 DEF S!SourceTransition, S!BeginEpoch, StartOf
    <3>2. CASE pending.kind = "Seek"
      <4>1. S!ActivationClock(pending) = clock
        BY <2>2, <3>2 DEF S!ActivationClock
      <4>2. QED
        BY <3>2, <4>1 DEF StartOf
    <3>3. QED
      BY <2>2, <3>1, <3>2
  <2>4. state # "Playing"
    BY <2>1 DEF SessionInv, S!PendingIsCurrent
  <2>5. CASE S!UnexpectedEvent
    BY <2>4, <2>5 DEF S!UnexpectedEvent, Pauseless, Intent, S!Return, S!Untouched, S!core
  <2>6. CASE /\ clock' = S!ActivationClock(pending)
             /\ state' = IF pending.kind = "Seek" /\ pending.prior = "Paused"
                         THEN "Paused" ELSE "Playing"
             /\ pending' = NoPending
             /\ S!Return("Accepted")
    BY <1>4, <2>1, <2>2, <2>3, <2>6 DEF Pauseless, Intent, S!Return
  <2>7. QED
    BY <1>4, <2>5, <2>6 DEF S!PrebufferReady
<1>5. CASE kind = "SeekApplied" /\ S!SeekApplied(token, pos)
  <2>1. pending # NoPending /\ pending \in S!PendingOperations
    BY <1>5 DEF S!SeekApplied, S!Expected, S!EventVerdict, SessionInv, S!TypeOK
  <2>2. state # "Playing"
    BY <2>1 DEF SessionInv, S!PendingIsCurrent
  <2>3. CASE UNCHANGED <<state, pending>> /\ Intent' = NoIntent
    BY <2>2, <2>3 DEF Pauseless
  <2>4. CASE /\ pending.kind = "Seek"
             /\ clock' = S!SeekTo(clock, pos)
             /\ pending' = [pending EXCEPT !.applied = TRUE]
             /\ state' = IF pending.prior = "Paused" THEN state ELSE "Buffering"
    <3>1. /\ pending'.kind = "Seek" /\ pending'.prior = pending.prior
          /\ pending'.resumes = pending.resumes
      BY <2>1, <2>4 DEF S!PendingOperations
    <3>2. clock'.position = pos
      BY <2>4 DEF S!SeekTo, S!BeginEpoch
    <3>3. QED
      BY <1>5, <2>1, <2>2, <2>4, <3>1, <3>2 DEF Pauseless
  <2>5. QED
    BY <1>5, <2>3, <2>4 DEF S!SeekApplied, S!UnexpectedEvent, S!Untouched, S!core,
       S!Return, Intent
<1>6. CASE S!PendingTerminalEvent(kind, token)
  BY <1>6 DEF S!PendingTerminalEvent, S!TerminalEvents, S!TerminalState, Pauseless, Intent,
     S!Return
<1>7. QED
  BY <1>1, <1>2, <1>3, <1>4, <1>5, <1>6 DEF S!HandleWorkerEvent

OnTheClock == Pauseless /\ SoundFollowsClock

\* Steps that leave session and sound alone, and steps after which nothing plays
\* and nothing is prepared.
LEMMA QuietClock ==
  ASSUME OnTheClock, UNCHANGED <<sessionVars, sound>>, calling' \notin {"fill", "intent"}
  PROVE  OnTheClock'
BY DEF OnTheClock, Pauseless, SoundFollowsClock, FollowsFrom, Executing, sessionVars, sound

LEMMA RestingClock ==
  ASSUME Pauseless', state' # "Playing", calling' # "fill", ~Executing("PrepareBuffer")'
  PROVE  OnTheClock'
BY DEF OnTheClock, SoundFollowsClock

\* Commands leave the sound where it is.
LEMMA CommandClock ==
  ASSUME OnTheClock, Pauseless', PlayingGoesOn,
         Intent' # NoIntent => Intent'.kind # "PrepareBuffer",
         UNCHANGED sound, calling' = "intent"
  PROVE  OnTheClock'
<1>1. state' = "Playing" => FollowsFrom(clock.position)'
  BY DEF PlayingGoesOn, OnTheClock, SoundFollowsClock, FollowsFrom, sound
<1>2. calling' # "fill" /\ ~Executing("PrepareBuffer")'
  BY DEF Executing
<1>3. QED
  BY <1>1, <1>2 DEF OnTheClock, SoundFollowsClock

LEMMA DispatchedClock ==
  ASSUME OnTheClock, SessionInv, NEW r \in Requests,
         \/ Dispatched(r, S!DispatchResume(r)) \/ Dispatched(r, S!DispatchStop(r))
         \/ \E pos \in S!Positions : Dispatched(r, S!DispatchSeek(r, pos))
         \/ \E target \in Requests : Dispatched(r, S!DispatchCancel(r, target))
         \/ \E item \in Items : Dispatched(r, S!DispatchPlay(r, item)),
         UNCHANGED sound
  PROVE  OnTheClock'
<1>1. Pauseless /\ calling' = "intent"
  BY DEF OnTheClock, Dispatched
<1>2. CASE S!DispatchDuplicate(r)
  <2>1. UNCHANGED <<state, pending, clock, activeToken, bufferGeneration, currentItem>>
        /\ Intent' = NoIntent
    BY <1>2 DEF S!DispatchDuplicate, S!Return, S!Untouched, S!core, Intent
  <2>2. Pauseless' /\ PlayingGoesOn
    BY <1>1, <2>1 DEF Pauseless, PlayingGoesOn
  <2>3. QED
    BY <1>1, <2>1, <2>2, CommandClock
<1>3. CASE \/ S!DispatchResume(r) \/ S!DispatchStop(r)
           \/ \E pos \in S!Positions : S!DispatchSeek(r, pos)
           \/ \E target \in Requests : S!DispatchCancel(r, target)
  <2>1. Pauseless' /\ (Intent' # NoIntent => Intent'.kind # "PrepareBuffer")
    BY <1>1, <1>3, PauselessCommand
  <2>2. PlayingGoesOn
    BY <1>3, CommandEffect
  <2>3. QED
    BY <1>1, <2>1, <2>2, CommandClock
<1>4. CASE \E item \in Items : S!DispatchPlay(r, item)
  BY <1>1, <1>4, PauselessPlay, CommandClock
<1>5. QED
  BY <1>2, <1>3, <1>4 DEF Dispatched

\* A failure or an end, told of something that does not play.
LEMMA ReportClock ==
  ASSUME SessionInv, OnTheClock, NEW kind \in S!TerminalEvents, NEW token, NEW pos,
         S!HandleWorkerEvent(kind, token, pos),
         state' # "Playing",
         calling' # "fill"
  PROVE  OnTheClock'
<1>1. Pauseless' /\ Intent' = NoIntent
  BY PauselessReport DEF OnTheClock, S!TerminalEvents
<1>2. QED
  BY <1>1, RestingClock DEF Executing

LEMMA ReceiveClock ==
  ASSUME "Pause" \notin Commands, Shapes, SessionInv, OnTheClock, NEW r \in Requests,
         calling = "idle",
         \/ DuplicateCommand(r)
         \/ \E q : OnQueue(r, q)
         \/ SessionCommand(r)
         \/ \E item \in Items \cup {NoItem} : PlayCommand(r, item)
  PROVE  OnTheClock'
<1>1. CASE DuplicateCommand(r) \/ \E q : OnQueue(r, q)
  BY <1>1, QuietClock DEF DuplicateCommand, OnQueue
<1>2. CASE SessionCommand(r)
  BY <1>2, DispatchedClock DEF SessionCommand, Command
<1>3. CASE \E item \in Items \cup {NoItem} : PlayCommand(r, item)
  <2>1. PICK item \in Items \cup {NoItem} : PlayCommand(r, item)
    BY <1>3
  <2> DEFINE chosen == SelectForPlay(item)
  <2>2. CASE UNCHANGED <<sessionVars, calling>>
    BY <2>1, <2>2, QuietClock DEF PlayCommand
  <2>3. CASE /\ chosen.current \in DOMAIN chosen.items
             /\ Dispatched(r, S!DispatchPlay(r, chosen.items[chosen.current]))
    <3>1. chosen.items[chosen.current] \in Items
      BY <2>3, SelectForPlayIsQueue DEF IsQueue, Shapes
    <3>2. UNCHANGED sound
      BY <2>1 DEF PlayCommand
    <3> HIDE DEF chosen
    <3>3. QED
      BY <2>3, <3>1, <3>2, DispatchedClock
  <2>4. QED
    BY <2>1, <2>2, <2>3 DEF PlayCommand
<1>4. QED
  BY <1>1, <1>2, <1>3

LEMMA EndClock ==
  ASSUME SessionInv, SoundIsCurrent, OnTheClock, activeWorker # NoToken,
         S!HandleWorkerEvent("Ended", activeWorker, 0),
         calling' # "fill"
  PROVE  OnTheClock'
<1>1. state' # "Playing"
  BY EndIsHandled
<1>2. QED
  BY <1>1, ReportClock DEF S!TerminalEvents

LEMMA TransitionClock ==
  ASSUME Shapes, SessionInv, SoundIsCurrent, OnTheClock, NEW r \in Requests, NEW result,
         calling = "idle", Transitioned(r, result)
  PROVE  OnTheClock'
<1>1. CASE SelectTransition(r, result)
  <2> DEFINE id == InternalId(seen \cup {r})
  <2>1. CASE state \in AtRest /\ calling' = "then" /\ UNCHANGED sessionVars
    <3>1. Pauseless' /\ state' # "Playing"
      BY <2>1 DEF OnTheClock, Pauseless, AtRest, S!TerminalStates, sessionVars
    <3>2. QED
      BY <2>1, <3>1, RestingClock DEF Executing
  <2>2. CASE UNCHANGED <<sessionVars, calling>> /\ UNCHANGED sound
    BY <2>2, QuietClock
  <2>3. CASE /\ ~Exhausted(seen \cup {r})
             /\ Dispatched(id, S!DispatchStop(id))
             /\ UNCHANGED sound
    <3>1. id \in Requests
      BY <2>3, InternalIdIsNew DEF Shapes
    <3>2. QED
      BY <2>3, <3>1, DispatchedClock
  <2>4. QED
    BY <1>1, <2>1, <2>2, <2>3 DEF SelectTransition
<1>2. CASE EndTransition(r)
  <2>1. CASE activeWorker = NoToken /\ UNCHANGED <<sessionVars, activeWorker>>
    <3>1. state' # "Playing" /\ Pauseless' /\ calling' = calling
      BY <1>2, <2>1 DEF SoundIsCurrent, SessionInv, S!EveryStateHasAnOwner, OnTheClock,
         Pauseless, sessionVars, EndTransition
    <3>2. QED
      BY <3>1, RestingClock DEF Executing
  <2>2. CASE activeWorker # NoToken
    BY <1>2, <2>2, EndClock DEF EndTransition, ApplyWorkerEvent
  <2>3. QED
    BY <1>2, <2>1, <2>2 DEF EndTransition
<1>3. CASE UNCHANGED <<sessionVars, sound, nextInternal, activeWorker, calling, thenPlay>>
  BY <1>3, QuietClock
<1>4. QED
  BY <1>1, <1>2, <1>3 DEF Transitioned

\* Sources open at their beginning, and decoders land where the clock is sent, or
\* at the end of their track.
LEMMA IntentClock ==
  ASSUME Shapes, SessionInv, SoundIsCurrent, OnTheClock,
         \/ ExecuteResolveSource \/ ExecutePrepareBuffer \/ ExecuteSeek
         \/ ExecutePause \/ ExecuteStop
  PROVE  OnTheClock'
<1>1. /\ calling = "intent" /\ Intent # NoIntent /\ state # "Playing"
      /\ Pauseless
  BY DEF OnTheClock, SoundIsCurrent, ExecuteResolveSource, ExecutePrepareBuffer,
     ExecuteSeek, ExecutePause, ExecuteStop, Executing
<1>2. CASE ExecuteResolveSource
  <2>1. CASE /\ decoder' = [item |-> Intent.item, at |-> 0]
             /\ ApplyWorkerEvent("SourceReady", Intent.token, 0)
    <3>1. /\ Pauseless'
          /\ state' # "Playing"
          /\ Intent' # NoIntent => pending'.kind = "Play"
      BY <1>1, <2>1, PauselessReport DEF ApplyWorkerEvent
    <3>2. calling' = "intent" /\ decoder'.at = 0
      BY <1>1, <1>2, <2>1 DEF ExecuteResolveSource
    <3>3. QED
      BY <3>1, <3>2 DEF OnTheClock, SoundFollowsClock, StartOf
  <2>2. CASE \E kind \in {"SourceUnavailable", "Failed"} :
               ApplyWorkerEvent(kind, Intent.token, 0)
    <3>1. PICK kind \in {"SourceUnavailable", "Failed"} :
                 S!HandleWorkerEvent(kind, Intent.token, 0)
      BY <2>2 DEF ApplyWorkerEvent
    <3>2. state' # "Playing"
      BY <1>1, <3>1, PauselessReport
    <3>3. QED
      BY <1>1, <1>2, <3>1, <3>2, ReportClock DEF ExecuteResolveSource, S!TerminalEvents
  <2>3. QED
    BY <1>2, <2>1, <2>2 DEF ExecuteResolveSource
<1>3. CASE ExecuteSeek
  <2>1. CASE \E pos \in S!Positions :
               /\ decoder # NoDecoder
               /\ decoder' = [decoder EXCEPT !.at = Min({pos, TrackLength})]
               /\ ApplyWorkerEvent("SeekApplied", Intent.token, pos)
    <3>1. PICK pos \in S!Positions :
                 /\ decoder # NoDecoder
                 /\ decoder' = [decoder EXCEPT !.at = Min({pos, TrackLength})]
                 /\ S!HandleWorkerEvent("SeekApplied", Intent.token, pos)
      BY <2>1 DEF ApplyWorkerEvent
    <3>2. /\ Pauseless'
          /\ state' # "Playing"
          /\ Intent' # NoIntent => pending'.kind = "Seek" /\ clock'.position = pos
      BY <1>1, <3>1, PauselessReport
    <3>3. decoder'.at \in {pos, TrackLength}
      <4>1. pos \in Int /\ TrackLength \in Int /\ decoder \in Decoders
        BY <3>1, OfflinePipelineAssumption, NothingAssumption DEF S!Positions, Shapes
      <4>2. Min({pos, TrackLength}) \in {pos, TrackLength}
        BY <4>1, MinOfTwo
      <4>3. decoder'.at = Min({pos, TrackLength})
        BY <3>1, <4>1 DEF Decoders
      <4>4. QED
        BY <4>2, <4>3
    <3>4. calling' = "intent"
      BY <1>1, <1>3 DEF ExecuteSeek
    <3>5. Executing("PrepareBuffer")' => decoder'.at \in {StartOf(pending)', TrackLength}
      BY <3>2, <3>3 DEF Executing, StartOf
    <3>6. QED
      BY <3>2, <3>4, <3>5 DEF OnTheClock, SoundFollowsClock
  <2>2. CASE ApplyWorkerEvent("Failed", Intent.token, 0)
    <3>1. S!HandleWorkerEvent("Failed", Intent.token, 0) /\ state' # "Playing"
      BY <1>1, <2>2, PauselessReport DEF ApplyWorkerEvent
    <3>2. QED
      BY <1>1, <1>3, <3>1, ReportClock DEF ExecuteSeek, S!TerminalEvents
  <2>3. QED
    BY <1>3, <2>1, <2>2 DEF ExecuteSeek
<1>4. CASE ExecutePrepareBuffer
  <2>1. /\ buffer'.frames = <<>> /\ calling' = "fill"
        /\ UNCHANGED <<sessionVars, decoder>>
        /\ Executing("PrepareBuffer")
    BY <1>4 DEF ExecutePrepareBuffer, ResetBuffer
  <2>2. ASSUME pending # NoPending, Intent.token = pending.token
        PROVE  FollowsFrom(StartOf(pending))'
    <3>1. decoder # NoDecoder => decoder.at \in {StartOf(pending), TrackLength}
      BY <1>1, <2>1, <2>2 DEF OnTheClock, SoundFollowsClock
    <3>2. StartOf(pending) \in Int
      BY DEF StartOf, SessionInv, S!TypeOK, S!Clocks
    <3>3. StartOf(pending)' = StartOf(pending)
      BY <2>1 DEF StartOf, sessionVars
    <3>4. QED
      BY <2>1, <3>1, <3>2, <3>3 DEF FollowsFrom
  <2>3. QED
    BY <1>1, <2>1, <2>2 DEF OnTheClock, SoundFollowsClock, Pauseless, Executing, Intent,
       sessionVars
<1>5. CASE ExecutePause \/ ExecuteStop
  <2>1. Pauseless' /\ state' # "Playing" /\ calling' = "then"
    BY <1>1, <1>5 DEF ExecutePause, ExecuteStop, Pauseless, sessionVars
  <2>2. QED
    BY <2>1, RestingClock DEF Executing
<1>6. QED
  BY <1>2, <1>3, <1>4, <1>5

\* Decoding appends the frames that follow.
LEMMA DecodeFollows ==
  ASSUME Shapes, Decode, NEW base \in Int, FollowsFrom(base)
  PROVE  /\ \A k \in DOMAIN buffer'.frames : buffer'.frames[k].at = base + k - 1
         /\ \/ decoder'.at = base + Len(buffer'.frames)
            \/ decoder'.at = TrackLength /\ buffer'.frames = <<>>
<1>1. PICK n \in 0 .. Room :
        /\ decoder' = [decoder EXCEPT !.at = @ + n]
        /\ buffer' = [buffer EXCEPT !.frames =
             @ \o [k \in 1 .. n |->
                     [item |-> decoder.item, at |-> decoder.at + k - 1]]]
  BY DEF Decode
<1>2. /\ decoder # NoDecoder
      /\ n \in Nat
      /\ decoder \in Decoders
      /\ decoder.at + n <= TrackLength
  BY <1>1, DecodeSound DEF Decode
<1> DEFINE new == [k \in 1 .. n |-> [item |-> decoder.item, at |-> decoder.at + k - 1]]
<1>3. new \in Seq(Frames) /\ Len(new) = n
  BY <1>1, <1>2, DecodeSound
<1>4. \A k \in 1 .. n : new[k].at = decoder.at + k - 1
  OBVIOUS
<1>5. buffer'.frames = buffer.frames \o new /\ buffer.frames \in Seq(Frames)
  BY <1>1 DEF Shapes
<1>6. decoder'.at = decoder.at + n /\ decoder.at \in Nat
  BY <1>1, <1>2, OfflinePipelineAssumption DEF Decoders
<1> HIDE DEF new
<1>7. CASE decoder.at = base + Len(buffer.frames)
  <2>1. \A k \in DOMAIN buffer'.frames : buffer'.frames[k].at = base + k - 1
    <3> DEFINE held == buffer.frames
    <3>1. held \in Seq(Frames) /\ Len(held) \in Nat /\ buffer'.frames = held \o new
      BY <1>5
    <3>2. \A k \in 1 .. Len(held) : held[k].at = base + k - 1
      BY <3>1 DEF FollowsFrom
    <3>3. base \in Int /\ decoder.at = base + Len(held)
      BY <1>7
    <3> HIDE DEF held
    <3>4. ASSUME NEW k \in DOMAIN buffer'.frames
          PROVE  buffer'.frames[k].at = base + k - 1
      <4>1. k \in 1 .. Len(held) + n
        BY <1>2, <1>3, <3>1
      <4>2. CASE k <= Len(held)
        <5>1. k \in 1 .. Len(held) /\ (held \o new)[k] = held[k]
          BY <1>3, <3>1, <4>1, <4>2
        <5>2. QED
          BY <3>1, <3>2, <5>1
      <4>3. CASE k > Len(held)
        <5>1. k - Len(held) \in 1 .. n /\ (held \o new)[k] = new[k - Len(held)]
          BY <1>2, <1>3, <3>1, <4>1, <4>3
        <5>2. new[k - Len(held)].at = decoder.at + (k - Len(held)) - 1
          BY <1>4, <5>1
        <5>3. QED
          BY <1>6, <3>1, <3>3, <4>1, <5>1, <5>2
      <4>4. QED
        BY <1>2, <3>1, <4>1, <4>2, <4>3
    <3>5. QED
      BY <3>4
  <2>2. Len(buffer'.frames) = Len(buffer.frames) + n /\ Len(buffer.frames) \in Nat
    BY <1>3, <1>5
  <2>3. decoder'.at = base + Len(buffer'.frames)
    BY <1>2, <1>6, <1>7, <2>2
  <2>4. QED
    BY <2>1, <2>3
<1>8. CASE decoder.at = TrackLength /\ buffer.frames = <<>>
  <2>1. n = 0
    BY <1>2, <1>8, OfflinePipelineAssumption
  <2>2. buffer'.frames = <<>>
    BY <1>3, <1>5, <1>8, <2>1
  <2>3. QED
    BY <1>6, <1>8, <2>1, <2>2
<1>9. QED
  BY <1>2, <1>7, <1>8 DEF FollowsFrom

LEMMA PumpClock ==
  ASSUME Shapes, SessionInv, SoundIsCurrent, OnTheClock,
         Decode \/ DecodeFails \/ PumpReturns
  PROVE  OnTheClock'
<1>1. /\ calling \in {"pump", "fill"}
      /\ calling = "fill" => Intent # NoIntent /\ state # "Playing"
      /\ Pauseless
  BY DEF Decode, DecodeFails, PumpReturns, Pumping, SoundIsCurrent, Shapes, OnTheClock
<1>2. CASE Decode
  <2>1. UNCHANGED <<sessionVars, calling>>
    BY <1>2 DEF Decode
  <2>2. ASSUME NEW base \in Int, FollowsFrom(base)
        PROVE  /\ \A k \in DOMAIN buffer'.frames : buffer'.frames[k].at = base + k - 1
               /\ \/ decoder'.at = base + Len(buffer'.frames)
                  \/ decoder'.at = TrackLength /\ buffer'.frames = <<>>
    BY <1>2, <2>2, DecodeFollows
  <2>3. clock.position \in Int /\ StartOf(pending) \in Int
    BY DEF StartOf, SessionInv, S!TypeOK, S!Clocks
  <2>4. state' = "Playing" => FollowsFrom(clock.position)'
    <3>1. HAVE state' = "Playing"
    <3>2. FollowsFrom(clock.position) /\ clock' = clock
      BY <2>1, <3>1 DEF OnTheClock, SoundFollowsClock, sessionVars
    <3>3. QED
      BY <2>2, <2>3, <3>2 DEF FollowsFrom
  <2>5. ASSUME pending' # NoPending, (Intent.token = pending.token)', calling' = "fill"
        PROVE  FollowsFrom(StartOf(pending))'
    <3>1. FollowsFrom(StartOf(pending)) /\ StartOf(pending)' = StartOf(pending)
      BY <1>1, <2>1, <2>5 DEF OnTheClock, SoundFollowsClock, StartOf, sessionVars, Intent
    <3>2. QED
      BY <2>2, <2>3, <3>1 DEF FollowsFrom
  <2>6. Pauseless' /\ ~Executing("PrepareBuffer")'
    BY <1>1, <2>1 DEF Pauseless, Executing, sessionVars
  <2>7. QED
    BY <2>4, <2>5, <2>6 DEF OnTheClock, SoundFollowsClock
<1>3. CASE DecodeFails
  <2>1. CASE calling = "fill"
    <3>1. /\ S!HandleWorkerEvent("Failed", Intent.token, 0)
          /\ calling' = "intent"
      BY <1>3, <2>1 DEF DecodeFails, ApplyWorkerEvent
    <3>2. state' # "Playing"
      BY <1>1, <2>1, <3>1, PauselessReport
    <3>3. QED
      BY <3>1, <3>2, ReportClock DEF S!TerminalEvents
  <2>2. CASE calling # "fill"
    <3>1. UNCHANGED <<sessionVars, buffer>> /\ decoder' = NoDecoder /\ calling' = "idle"
      BY <1>3, <2>2 DEF DecodeFails
    <3>2. QED
      BY <3>1 DEF OnTheClock, SoundFollowsClock, FollowsFrom, Pauseless, Executing,
         sessionVars
  <2>3. QED
    BY <2>1, <2>2
<1>4. CASE PumpReturns
  <2>1. CASE calling = "fill" /\ decoder # NoDecoder
    <3>1. /\ S!HandleWorkerEvent("PrebufferReady", Intent.token, 0)
          /\ calling' = "intent"
          /\ UNCHANGED sound
      BY <1>4, <2>1 DEF PumpReturns, ApplyWorkerEvent
    <3>2. /\ Pauseless'
          /\ state' = "Playing" =>
               /\ pending # NoPending /\ Intent.token = pending.token
               /\ clock'.position = StartOf(pending)
          /\ Intent' = NoIntent
      BY <1>1, <2>1, <3>1, PauselessReport
    <3>3. state' = "Playing" => FollowsFrom(StartOf(pending))
      BY <1>1, <2>1, <3>2 DEF OnTheClock, SoundFollowsClock
    <3>4. state' = "Playing" => FollowsFrom(clock.position)'
      BY <3>1, <3>2, <3>3 DEF FollowsFrom, sound
    <3>5. QED
      BY <3>1, <3>2, <3>4 DEF OnTheClock, SoundFollowsClock, Executing
  <2>2. CASE ~(calling = "fill" /\ decoder # NoDecoder)
    BY <1>1, <1>4, <2>2, QuietClock DEF PumpReturns
  <2>3. QED
    BY <2>1, <2>2
<1>5. QED
  BY <1>2, <1>3, <1>4

\* What is rendered goes from the front of the buffer and onto the clock.
LEMMA RenderClock ==
  ASSUME Shapes, SessionInv, OnTheClock, Render,
         clock.position = clock.base + clock.frames
  PROVE  OnTheClock'
<1> DEFINE n == RenderedFrames
<1>1. /\ IF n = 0 THEN UNCHANGED sessionVars ELSE S!RecordRenderedFrames(n)
      /\ buffer' = [buffer EXCEPT !.frames = SubSeq(@, n + 1, Len(@))]
      /\ calling' = "sink"
      /\ decoder' = decoder
  BY DEF Render, RenderedFrames
<1>2. n \in 0 .. Len(buffer.frames)
  BY RenderedAreFrames
<1>3. buffer.frames \in Seq(Frames) /\ clock \in S!Clocks
  BY DEF Shapes, SessionInv, S!TypeOK
<1> HIDE DEF n
<1>4. UNCHANGED <<state, pending>> /\ clock'.position = clock.position + n
  <2>1. CASE n = 0
    BY <1>1, <1>3, <2>1 DEF sessionVars, S!Clocks
  <2>2. CASE n # 0
    BY <1>1, <1>2, <1>3, <2>2 DEF S!RecordRenderedFrames, S!AdvanceRenderedFrames, S!Clocks
  <2>3. QED
    BY <2>1, <2>2
<1>5. buffer'.frames = SubSeq(buffer.frames, n + 1, Len(buffer.frames))
  BY <1>1 DEF Shapes
<1>6. /\ Len(buffer'.frames) = Len(buffer.frames) - n
      /\ \A k \in DOMAIN buffer'.frames : buffer'.frames[k] = buffer.frames[k + n]
      /\ \A k \in DOMAIN buffer'.frames : k + n \in DOMAIN buffer.frames /\ k \in Nat
  BY <1>2, <1>3, <1>5
<1>7. ASSUME state' = "Playing" PROVE FollowsFrom(clock.position)'
  <2>1. FollowsFrom(clock.position) /\ clock.position \in Nat
    BY <1>3, <1>4, <1>7 DEF OnTheClock, SoundFollowsClock, S!Clocks
  <2>2. \A k \in DOMAIN buffer'.frames : buffer'.frames[k].at = clock'.position + k - 1
    <3>1. TAKE k \in DOMAIN buffer'.frames
    <3>2. /\ buffer'.frames[k] = buffer.frames[k + n]
          /\ k + n \in DOMAIN buffer.frames /\ k \in Nat
      BY <1>6
    <3>3. buffer.frames[k + n].at = clock.position + (k + n) - 1
      BY <2>1, <3>2 DEF FollowsFrom
    <3>4. QED
      BY <1>2, <1>4, <2>1, <3>2, <3>3
  <2>3. CASE decoder.at = clock.position + Len(buffer.frames)
    <3>1. Len(buffer.frames) \in Nat
      BY <1>3
    <3>2. decoder'.at = clock'.position + Len(buffer'.frames)
      BY <1>1, <1>2, <1>4, <1>6, <2>1, <2>3, <3>1
    <3>3. QED
      BY <2>2, <3>2 DEF FollowsFrom
  <2>4. CASE decoder.at = TrackLength /\ buffer.frames = <<>>
    <3>1. buffer'.frames = <<>>
      BY <1>2, <1>3, <1>5, <2>4
    <3>2. QED
      BY <1>1, <2>2, <2>4, <3>1 DEF FollowsFrom
  <2>5. CASE decoder = NoDecoder
    BY <1>1, <2>2, <2>5 DEF FollowsFrom
  <2>6. QED
    BY <2>1, <2>3, <2>4, <2>5 DEF FollowsFrom
<1>8. QED
  BY <1>1, <1>4, <1>7 DEF OnTheClock, Pauseless, SoundFollowsClock, Executing

LEMMA OtherClock ==
  ASSUME Shapes, SessionInv, SoundIsCurrent, OnTheClock,
         PumpCall \/ NoIntentLeft \/ SinkFails \/ SinkTakes \/ FinishCurrentItem \/ ThenPlay
  PROVE  OnTheClock'
<1>1. CASE PumpCall \/ NoIntentLeft \/ SinkFails
  BY <1>1, QuietClock DEF PumpCall, NoIntentLeft, SinkFails
<1>2. CASE SinkTakes
  <2>1. UNCHANGED <<state, pending>> /\ clock'.position = clock.position
    BY <1>2 DEF SinkTakes, S!Acknowledge, S!AcknowledgeDiscontinuity, SessionInv,
       S!TypeOK, S!Clocks
  <2>2. UNCHANGED sound /\ calling' \in {"finish", "idle"}
    BY <1>2 DEF SinkTakes
  <2>3. QED
    BY <2>1, <2>2 DEF OnTheClock, Pauseless, SoundFollowsClock, FollowsFrom, Executing,
       sound
<1>3. CASE FinishCurrentItem
  <2>1. calling' \in {"idle", "then"}
    BY <1>3 DEF FinishCurrentItem
  <2>2. CASE activeWorker = NoToken
    BY <1>3, <2>1, <2>2, QuietClock DEF FinishCurrentItem
  <2>3. CASE activeWorker # NoToken
    BY <1>3, <2>1, <2>3, EndClock DEF FinishCurrentItem, ApplyWorkerEvent
  <2>4. QED
    BY <2>2, <2>3
<1>4. CASE ThenPlay
  <2>1. CASE thenPlay = NoPlay
    BY <1>4, <2>1, QuietClock DEF ThenPlay
  <2>2. CASE thenPlay # NoPlay
    <3>1. thenPlay.req \in Requests /\ thenPlay.item \in Items
      BY <2>2 DEF Shapes
    <3>2. QED
      BY <1>4, <2>2, <3>1, DispatchedClock DEF ThenPlay
  <2>3. QED
    BY <2>1, <2>2
<1>5. QED
  BY <1>1, <1>2, <1>3, <1>4

LEMMA StepClock ==
  ASSUME "Pause" \notin Commands,
         Shapes, SessionInv, SoundIsCurrent, OnTheClock,
         clock.position = clock.base + clock.frames, [Next]_vars
  PROVE  OnTheClock'
<1>1. CASE \E r \in Requests : Receive(r)
  <2>1. PICK r \in Requests : Receive(r)
    BY <1>1
  <2>2. calling = "idle"
    BY <2>1 DEF Receive, DuplicateCommand, SetQueueCommand, SetShuffleCommand,
       SetRepeatCommand, PlayCommand, SessionCommand, NextCommand, PreviousCommand,
       Command
  <2>3. CASE NextCommand(r) \/ PreviousCommand(r)
    BY <2>2, <2>3, TransitionClock DEF NextCommand, PreviousCommand
  <2>4. QED
    BY <2>1, <2>2, <2>3, ReceiveClock
    DEF Receive, SetQueueCommand, SetShuffleCommand, SetRepeatCommand
<1>2. CASE PumpCall \/ Render \/ Continue
  BY <1>2, OtherClock, RenderClock, IntentClock, PumpClock DEF Continue
<1>3. CASE UNCHANGED vars
  BY <1>3 DEF vars, sessionVars, sound, call, OnTheClock, Pauseless, SoundFollowsClock,
     FollowsFrom, StartOf, Executing, Intent
<1>4. QED
  BY <1>1, <1>2, <1>3 DEF Next

\* What is heard next is what the clock shows, as long as callers do not pause:
\* through plays, seeks, stops, ends and transitions the first prepared frame is
\* the one at the presentation position (pipeline.rs, execute_intent, pump_worker
\* and render_prepared).  A pause is left out because the code, having thrown the
\* prepared frames away, prepares those behind them.
THEOREM SoundFollowsTheClock ==
  ASSUME "Pause" \notin Commands
  PROVE  Spec => []NextFrameIsAtTheClock
<1>1. Init => OnTheClock
  BY NothingAssumption DEF Init, S!Init, OnTheClock, Pauseless, SoundFollowsClock
<1>2. SP!IInv /\ Shapes /\ SoundIsCurrent /\ SP!ClockFollowsBase /\ OnTheClock
        /\ [Next]_vars => OnTheClock'
  BY SessionFacts, StepClock DEF SP!ClockFollowsBase
<1>3. S!Spec => []SP!ClockFollowsBase
  BY SessionAssumption, SameSpec, SP!ClockInvariance, PTL
<1>4. SP!IInv /\ Shapes /\ OnTheClock => NextFrameIsAtTheClock
  <2> SUFFICES ASSUME SP!IInv, Shapes, OnTheClock, state = "Playing",
                      buffer.frames # <<>>
               PROVE  Head(buffer.frames).at = clock.position
    BY DEF NextFrameIsAtTheClock
  <2>1. buffer.frames \in Seq(Frames) /\ clock.position \in Nat
    BY SessionFacts DEF Shapes, SessionInv, S!TypeOK, S!Clocks
  <2>2. 1 \in DOMAIN buffer.frames /\ Head(buffer.frames) = buffer.frames[1]
    BY <2>1
  <2>3. buffer.frames[1].at = clock.position + 1 - 1
    BY <2>2 DEF OnTheClock, SoundFollowsClock, FollowsFrom
  <2>4. QED
    BY <2>1, <2>2, <2>3
<1>5. QED
  BY <1>1, <1>2, <1>3, <1>4, ShapesInvariance, SoundInvariance, PTL DEF Spec
=============================================================================
