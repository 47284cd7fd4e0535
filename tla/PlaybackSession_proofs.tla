----------------------- MODULE PlaybackSession_proofs -----------------------
(***************************************************************************)
(* Proofs about the playback session, for every set of requests and items  *)
(* and every bound.                                                        *)
(***************************************************************************)
EXTENDS PlaybackSession, TLAPS

\* Recording a command keeps the ledger a ledger.
LEMMA RecordType ==
  ASSUME NEW t \in Trackers, NEW r \in Requests, NEW st \in RequestStates
  PROVE  Record(t, r, st) \in Trackers
BY DEF Record, Trackers, Records

\* So does resolving one.
LEMMA ResolveType ==
  ASSUME NEW t \in Trackers, NEW r \in Requests, NEW st \in RequestStates
  PROVE  Resolve(t, r, st) \in Trackers
BY DEF Resolve, Trackers, Records

\* So do marking a request applied and cancelling one.
LEMMA MarkCancelType ==
  ASSUME NEW t \in Trackers, NEW r \in Requests
  PROVE  MarkApplied(t, r) \in Trackers /\ Cancel(t, r) \in Trackers
BY ResolveType DEF MarkApplied, Cancel, RequestStates, Resolved, Cancelled
-----------------------------------------------------------------------------
(* The invariant.  The properties PendingIsCurrent and EveryStateHasAnOwner  *)
(* are inductive together; that retired tokens are inert rests on the third  *)
(* part: a token's generation is never ahead of the session's, and a retired *)
(* one is behind it.                                                         *)

TokensFenced ==
  /\ \A t \in issued : t.gen <= bufferGeneration
  /\ \A t \in retired : t.gen < bufferGeneration

IInv ==
  /\ TypeOK
  /\ PendingIsCurrent
  /\ EveryStateHasAnOwner
  /\ TokensFenced

\* The token of a new operation is a token, and so is every part of its intent.
LEMMA TokenType ==
  ASSUME TypeOK, NEW r \in Requests, NEW gen \in Nat
  PROVE  TokenFor(requests, r, gen) \in Tokens
BY DEF TypeOK, TokenFor, Trackers, Tokens

\* The clock operations map clocks to clocks.
LEMMA ClockType ==
  ASSUME NEW c \in Clocks, NEW pos \in Nat
  PROVE  /\ PauseBoundary(c) \in Clocks
         /\ ResumeBoundary(c) \in Clocks
         /\ StopBoundary(c) \in Clocks
         /\ SeekTo(c, pos) \in Clocks
         /\ SourceTransition(c, pos) \in Clocks
         /\ AcknowledgeDiscontinuity(c) \in Clocks
         /\ AdvanceRenderedFrames(c, pos) \in Clocks
<1>1. ASSUME NEW why \in DiscontinuityReasons, NEW p \in Nat
      PROVE  BeginEpoch(c, why, p) \in Clocks
  BY DEF BeginEpoch, Clocks
<1>2. c.position \in Nat
  BY DEF Clocks
<1>3. /\ PauseBoundary(c) \in Clocks
      /\ ResumeBoundary(c) \in Clocks
      /\ StopBoundary(c) \in Clocks
      /\ SeekTo(c, pos) \in Clocks
      /\ SourceTransition(c, pos) \in Clocks
  BY <1>1, <1>2 DEF PauseBoundary, ResumeBoundary, StopBoundary, SeekTo,
       SourceTransition, DiscontinuityReasons
<1>4. AcknowledgeDiscontinuity(c) \in Clocks
  BY DEF AcknowledgeDiscontinuity, Clocks
<1>5. AdvanceRenderedFrames(c, pos) \in Clocks
  BY DEF AdvanceRenderedFrames, Clocks
<1>6. QED
  BY <1>3, <1>4, <1>5

\* A call that returns no intent.
LEMMA ReturnType ==
  ASSUME TypeOK, NEW result \in Results, Return(result)
  PROVE  /\ update' \in [result : Results, intent : Intents \cup {NoIntent}]
         /\ issued' = issued
BY DEF Return

\* A call that returns one.
LEMMA ReturnIntentType ==
  ASSUME TypeOK,
         NEW kind \in {"ResolveSource", "PrepareBuffer", "Seek", "Pause", "Stop"},
         NEW token \in Tokens, NEW item \in Items \cup {NoItem}, NEW pos \in Nat,
         ReturnIntent(kind, token, item, pos)
  PROVE  /\ update' \in [result : Results, intent : Intents \cup {NoIntent}]
         /\ issued' = issued \cup {token}
BY DEF ReturnIntent, Intent, Intents, Results

\* A rejected command preserves the invariant.
LEMMA RejectInv ==
  ASSUME IInv, NEW r \in Requests, NEW reason \in Results,
         Fresh(r), Reject(r, reason)
  PROVE  IInv'
<1>1. requests' \in Trackers
  BY RecordType DEF IInv, TypeOK, Reject, RecordRejected, RequestStates, Resolved
<1>2. TypeOK'
  BY <1>1, ReturnType DEF IInv, TypeOK, Reject, Untouched, core
<1>3. PendingIsCurrent'
  BY DEF IInv, TypeOK, PendingIsCurrent, Reject, RecordRejected, Record, Fresh,
         Contains, Untouched, core, Trackers, PendingOperations, Tokens
<1>4. EveryStateHasAnOwner' /\ TokensFenced'
  BY DEF IInv, EveryStateHasAnOwner, TokensFenced, Reject, Untouched, core, Return
<1>5. QED
  BY <1>2, <1>3, <1>4 DEF IInv

\* Starting an operation keeps the invariant: its record is Active at the latest
\* revision, and its token alone carries the new generation.
LEMMA BeginInv ==
  ASSUME IInv, NEW r \in Requests, Fresh(r),
         NEW operation \in PendingOperations,
         operation.token = StartToken(r),
         BeginOperation(r, operation),
         NEW kind \in {"ResolveSource", "PrepareBuffer", "Seek"},
         NEW item \in Items \cup {NoItem}, NEW pos \in Nat,
         ReturnIntent(kind, StartToken(r), item, pos),
         currentItem' \in Items,
         clock' = clock,
         \/ state' \in {"Loading", "Buffering"}
         \/ /\ state' = "Paused"
            /\ operation.kind = "Seek"
            /\ operation.prior = "Paused"
  PROVE  IInv'
<1>1. StartToken(r) \in Tokens /\ StartToken(r).gen = bufferGeneration + 1
  BY TokenType DEF IInv, TypeOK, StartToken, NextGeneration, TokenFor
<1>2. /\ requests' \in Trackers
      /\ requests'.records[r] = [rev |-> StartToken(r).rev, st |-> "Active"]
      /\ StartToken(r).rev = requests'.latest
      /\ StartToken(r).req = r
  BY RecordType DEF IInv, TypeOK, BeginOperation, Start, Record, StartToken,
       TokenFor, Trackers, Records, RequestStates
<1>3. TypeOK'
  BY <1>1, <1>2, ReturnIntentType, PlaybackSessionAssumption
  DEF IInv, TypeOK, BeginOperation, NextGeneration, SessionStates
<1>4. PendingIsCurrent'
  BY <1>1, <1>2, PlaybackSessionAssumption
  DEF PendingIsCurrent, BeginOperation, NextGeneration
<1>5. EveryStateHasAnOwner'
  BY PlaybackSessionAssumption DEF EveryStateHasAnOwner, BeginOperation
<1>6. TokensFenced'
  BY <1>1 DEF IInv, TypeOK, TokensFenced, BeginOperation, NextGeneration,
       ReturnIntent, Tokens
<1>7. QED
  BY <1>3, <1>4, <1>5, <1>6 DEF IInv

\* A boundary keeps the invariant: nothing is pending or active after it, and
\* every token handed out before it is behind the new generation.
LEMMA BoundaryInv ==
  ASSUME IInv, NEW newState \in {"Paused", "Stopped"}, NEW newClock \in Clocks,
         Boundary(newState, newClock),
         requests' \in Trackers,
         update' \in [result : Results, intent : Intents \cup {NoIntent}],
         NEW token \in Tokens, token.gen = bufferGeneration + 1,
         issued' \in {issued, issued \cup {token}}
  PROVE  IInv'
<1>1. TypeOK'
  BY DEF IInv, TypeOK, Boundary, NextGeneration, SessionStates
<1>2. PendingIsCurrent' /\ EveryStateHasAnOwner'
  BY DEF PendingIsCurrent, EveryStateHasAnOwner, Boundary
<1>3. TokensFenced'
  BY DEF IInv, TypeOK, TokensFenced, Boundary, NextGeneration, Tokens
<1>4. QED
  BY <1>1, <1>2, <1>3 DEF IInv

\* A command that is applied on the spot and moves nothing keeps it too.
LEMMA UntouchedInv ==
  ASSUME IInv, NEW r \in Requests, Fresh(r), Untouched,
         requests' = RecordApplied(requests, r),
         update' \in [result : Results, intent : Intents \cup {NoIntent}],
         NEW token \in Tokens, token.gen = bufferGeneration,
         issued' \in {issued, issued \cup {token}}
  PROVE  IInv'
<1>1. requests' \in Trackers
  BY RecordType DEF IInv, TypeOK, RecordApplied, RequestStates, Resolved
<1>2. TypeOK'
  BY <1>1 DEF IInv, TypeOK, Untouched, core
<1>3. PendingIsCurrent'
  BY DEF IInv, TypeOK, PendingIsCurrent, RecordApplied, Record, Fresh,
         Contains, Untouched, core, Trackers, PendingOperations, Tokens
<1>4. EveryStateHasAnOwner' /\ TokensFenced'
  BY DEF IInv, TypeOK, EveryStateHasAnOwner, TokensFenced, Untouched, core, Tokens
<1>5. QED
  BY <1>2, <1>3, <1>4 DEF IInv
-----------------------------------------------------------------------------
(* Commands preserve the invariant. *)

LEMMA PlayInv ==
  ASSUME IInv, NEW r \in Requests, NEW i \in Items \cup {NoItem},
         DispatchPlay(r, i)
  PROVE  IInv'
<1> DEFINE selected == IF i = NoItem THEN currentItem ELSE i
           resumes  == state = "Paused" /\ selected = currentItem
           operation == PendingPlay(StartToken(r), resumes)
<1>1. CASE Reject(r, "InvalidState") \/ Reject(r, "NoCurrentItem")
  BY <1>1, RejectInv DEF DispatchPlay, Results
<1>2. CASE /\ selected # NoItem
           /\ BeginOperation(r, operation)
           /\ currentItem' = selected
           /\ state' = "Loading"
           /\ ReturnIntent("ResolveSource", StartToken(r), selected, 0)
           /\ UNCHANGED clock
  <2>1. selected \in Items
    BY <1>2 DEF IInv, TypeOK
  <2>2. operation \in PendingOperations /\ operation.token = StartToken(r)
    BY TokenType DEF IInv, TypeOK, PendingPlay, PendingOperations, StartToken,
       NextGeneration, SessionStates
  <2>3. QED
    BY <1>2, <2>1, <2>2, BeginInv DEF DispatchPlay
<1>3. QED
  BY <1>1, <1>2 DEF DispatchPlay

LEMMA PauseInv ==
  ASSUME IInv, NEW r \in Requests, DispatchPause(r)
  PROVE  IInv'
<1>1. CASE Reject(r, "InvalidState")
  BY <1>1, RejectInv DEF DispatchPause, Results
<1> DEFINE token(gen) == TokenFor(requests, r, gen)
<1>2. requests' = RecordApplied(requests, r) => requests' \in Trackers
  BY RecordType DEF IInv, TypeOK, RecordApplied, RequestStates, Resolved
<1>3. \A gen \in Nat : token(gen) \in Tokens /\ token(gen).gen = gen
  BY TokenType DEF IInv, TokenFor
<1>4. CASE /\ state \in {"Loading", "Buffering", "Playing"}
           /\ requests' = RecordApplied(requests, r)
           /\ ReturnIntent("Pause", token(NextGeneration), NoItem, 0)
           /\ Boundary("Paused", PauseBoundary(clock))
  <2>1. token(NextGeneration) \in Tokens
        /\ token(NextGeneration).gen = bufferGeneration + 1
    BY <1>3 DEF IInv, TypeOK, NextGeneration
  <2>2. PauseBoundary(clock) \in Clocks
    BY ClockType DEF IInv, TypeOK
  <2> HIDE DEF token
  <2>3. QED
    BY <1>2, <1>4, <2>1, <2>2, ReturnIntentType, BoundaryInv DEF IInv
<1>5. CASE /\ requests' = RecordApplied(requests, r)
           /\ ReturnIntent("Pause", token(bufferGeneration), NoItem, 0)
           /\ Untouched
  <2>1. token(bufferGeneration) \in Tokens
        /\ token(bufferGeneration).gen = bufferGeneration
    BY <1>3 DEF IInv, TypeOK
  <2>2. Fresh(r)
    BY DEF DispatchPause
  <2> HIDE DEF token
  <2>3. QED
    BY <1>2, <1>5, <2>1, <2>2, ReturnIntentType, UntouchedInv DEF IInv
<1>6. QED
  BY <1>1, <1>4, <1>5 DEF DispatchPause

LEMMA ResumeInv ==
  ASSUME IInv, NEW r \in Requests, DispatchResume(r)
  PROVE  IInv'
<1>1. CASE Reject(r, "InvalidState") \/ Reject(r, "NoCurrentItem")
  BY <1>1, RejectInv DEF DispatchResume, Results
<1>2. CASE /\ requests' = RecordApplied(requests, r)
           /\ Return("Accepted")
           /\ Untouched
  <2>1. /\ TokenFor(requests, r, bufferGeneration) \in Tokens
        /\ TokenFor(requests, r, bufferGeneration).gen = bufferGeneration
    BY TokenType DEF IInv, TypeOK, TokenFor
  <2>2. /\ update' \in [result : Results, intent : Intents \cup {NoIntent}]
        /\ issued' = issued
    BY <1>2, ReturnType DEF IInv, Results
  <2>3. Fresh(r)
    BY DEF DispatchResume
  <2>4. QED
    BY <1>2, <2>1, <2>2, <2>3, UntouchedInv
<1>3. CASE /\ state = "Paused"
           /\ currentItem # NoItem
           /\ BeginOperation(r, PendingResume(StartToken(r)))
           /\ state' = "Buffering"
           /\ ReturnIntent("PrepareBuffer", StartToken(r), currentItem,
                           clock.position)
           /\ UNCHANGED <<clock, currentItem>>
  <2>1. currentItem \in Items /\ clock.position \in Nat
    BY <1>3 DEF IInv, TypeOK, Clocks
  <2>2. /\ PendingResume(StartToken(r)) \in PendingOperations
        /\ PendingResume(StartToken(r)).token = StartToken(r)
    BY TokenType DEF IInv, TypeOK, PendingResume, PendingOperations, StartToken,
       NextGeneration, SessionStates
  <2>3. QED
    BY <1>3, <2>1, <2>2, BeginInv DEF DispatchResume
<1>4. QED
  BY <1>1, <1>2, <1>3 DEF DispatchResume

LEMMA SeekInv ==
  ASSUME IInv, NEW r \in Requests, NEW pos \in Positions, DispatchSeek(r, pos)
  PROVE  IInv'
<1>1. CASE Reject(r, "InvalidState") \/ Reject(r, "NoCurrentItem")
  BY <1>1, RejectInv DEF DispatchSeek, Results
<1>2. CASE /\ currentItem # NoItem
           /\ BeginOperation(r, PendingSeek(StartToken(r), pos, state))
           /\ state' = IF state = "Paused" THEN "Paused" ELSE "Buffering"
           /\ ReturnIntent("Seek", StartToken(r), NoItem, pos)
           /\ UNCHANGED <<clock, currentItem>>
  <2> DEFINE operation == PendingSeek(StartToken(r), pos, state)
  <2>1. currentItem \in Items /\ pos \in Nat
    BY <1>2, PlaybackSessionAssumption DEF IInv, TypeOK, Positions
  <2>2. /\ operation \in PendingOperations
        /\ operation.token = StartToken(r)
        /\ operation.kind = "Seek"
        /\ operation.prior = state
    BY <2>1, TokenType DEF IInv, TypeOK, PendingSeek, PendingOperations,
       StartToken, NextGeneration
  <2>3. QED
    BY <1>2, <2>1, <2>2, BeginInv DEF DispatchSeek
<1>3. QED
  BY <1>1, <1>2 DEF DispatchSeek

LEMMA StopInv ==
  ASSUME IInv, NEW r \in Requests, DispatchStop(r)
  PROVE  IInv'
<1> DEFINE token(gen) == TokenFor(requests, r, gen)
<1>1. requests' \in Trackers
  BY RecordType DEF IInv, TypeOK, DispatchStop, RecordApplied, RequestStates,
     Resolved
<1>2. \A gen \in Nat : token(gen) \in Tokens /\ token(gen).gen = gen
  BY TokenType DEF IInv, TokenFor
<1>3. CASE /\ ReturnIntent("Stop", token(NextGeneration), NoItem, 0)
           /\ Boundary("Stopped", StopBoundary(clock))
  <2>1. token(NextGeneration) \in Tokens
        /\ token(NextGeneration).gen = bufferGeneration + 1
    BY <1>2 DEF IInv, TypeOK, NextGeneration
  <2>2. StopBoundary(clock) \in Clocks
    BY ClockType DEF IInv, TypeOK
  <2> HIDE DEF token
  <2>3. QED
    BY <1>1, <1>3, <2>1, <2>2, ReturnIntentType, BoundaryInv DEF IInv
<1>4. CASE /\ ReturnIntent("Stop", token(bufferGeneration), NoItem, 0)
           /\ Untouched
  <2>1. token(bufferGeneration) \in Tokens
        /\ token(bufferGeneration).gen = bufferGeneration
    BY <1>2 DEF IInv, TypeOK
  <2>2. Fresh(r) /\ requests' = RecordApplied(requests, r)
    BY DEF DispatchStop
  <2> HIDE DEF token
  <2>3. QED
    BY <1>4, <2>1, <2>2, ReturnIntentType, UntouchedInv DEF IInv
<1>5. QED
  BY <1>3, <1>4 DEF DispatchStop

\* A cancel that does not hit the pending operation leaves its record alone: the
\* pending operation is Active at the latest revision, so a cancel of it always
\* answers CancelledBeforeCommit and clears it.
LEMMA CancelInv ==
  ASSUME IInv, NEW r \in Requests, NEW target \in Requests,
         DispatchCancel(r, target)
  PROVE  IInv'
<1> DEFINE outcome == CancellationOutcome(requests, target)
           hit == /\ pending # NoPending
                  /\ pending.token.req = target
                  /\ outcome = "CancelledBeforeCommit"
<1>1. CASE Reject(r, "UnknownCancellationTarget")
  BY <1>1, RejectInv DEF DispatchCancel, Results
<1>2. CASE /\ outcome # "UnknownRequest"
           /\ r # target
           /\ requests' = RecordApplied(Cancel(requests, target), r)
           /\ Return(outcome)
           /\ IF hit THEN Boundary("Stopped", clock) ELSE Untouched
  <2>1. requests' \in Trackers
    BY <1>2, RecordType, MarkCancelType
    DEF IInv, TypeOK, RecordApplied, RequestStates, Resolved
  <2>2. outcome \in Results
    BY DEF CancellationOutcome, Results
  <2>3. /\ update' \in [result : Results, intent : Intents \cup {NoIntent}]
        /\ issued' = issued
    BY <1>2, <2>2, ReturnType DEF IInv
  <2>4. CASE hit /\ Boundary("Stopped", clock)
    <3>1. /\ TokenFor(requests, r, bufferGeneration + 1) \in Tokens
          /\ TokenFor(requests, r, bufferGeneration + 1).gen
               = bufferGeneration + 1
      BY TokenType DEF IInv, TypeOK, TokenFor
    <3>2. QED
      BY <2>1, <2>3, <2>4, <3>1, BoundaryInv DEF IInv, TypeOK
  <2>5. CASE ~hit /\ Untouched
    <3>1. TypeOK'
      BY <2>1, <2>3, <2>5 DEF IInv, TypeOK, Untouched, core
    <3>2. EveryStateHasAnOwner' /\ TokensFenced'
      BY <2>3, <2>5 DEF IInv, EveryStateHasAnOwner, TokensFenced, Untouched, core
    <3>3. ASSUME pending # NoPending
          PROVE  /\ requests'.records[pending.token.req]
                      = requests.records[pending.token.req]
                 /\ requests'.latest = requests.latest
      <4>1. pending.token.req \in Requests
        BY <3>3 DEF IInv, TypeOK, PendingOperations, Tokens
      <4>2. /\ requests.records[pending.token.req].st = "Active"
            /\ requests.records[pending.token.req].rev = requests.latest
        BY <3>3 DEF IInv, PendingIsCurrent
      <4>3. pending.token.req # target
        BY <2>5, <3>3, <4>2 DEF CancellationOutcome, Cancelled
      <4>4. pending.token.req # r
        BY <4>2 DEF DispatchCancel, Fresh, Contains
      <4>5. /\ Cancel(requests, target).latest = requests.latest
            /\ Cancel(requests, target).records[pending.token.req]
                 = requests.records[pending.token.req]
            /\ Cancel(requests, target) \in Trackers
        BY <4>1, <4>3, MarkCancelType DEF IInv, TypeOK, Cancel, Resolve, Trackers
      <4>6. QED
        BY <1>2, <4>1, <4>4, <4>5 DEF RecordApplied, Record, Trackers
    <3>4. PendingIsCurrent'
      BY <2>5, <3>3 DEF IInv, PendingIsCurrent, Untouched, core
    <3>5. QED
      BY <3>1, <3>2, <3>4 DEF IInv
  <2>6. QED
    BY <1>2, <2>4, <2>5
<1>3. QED
  BY <1>1, <1>2 DEF DispatchCancel

\* Every dispatch preserves the invariant.
LEMMA DispatchInv ==
  ASSUME IInv, NEW r \in Requests, Dispatch(r)
  PROVE  IInv'
<1>1. CASE DispatchDuplicate(r)
  <2>1. /\ update' \in [result : Results, intent : Intents \cup {NoIntent}]
        /\ issued' = issued
    BY <1>1, ReturnType DEF IInv, DispatchDuplicate, Results
  <2>2. QED
    BY <1>1, <2>1 DEF IInv, TypeOK, PendingIsCurrent, EveryStateHasAnOwner,
       TokensFenced, DispatchDuplicate, Untouched, core
<1>2. CASE DispatchQueueCommand(r)
  BY <1>2, RejectInv DEF DispatchQueueCommand, Results
<1>3. QED
  BY <1>1, <1>2, PlayInv, PauseInv, ResumeInv, SeekInv, StopInv, CancelInv
  DEF Dispatch
-----------------------------------------------------------------------------
(* Worker events preserve the invariant. *)

\* An event that changes nothing but the answer.
LEMMA InertInv ==
  ASSUME IInv, NEW result \in Results, Return(result), Untouched,
         requests' = requests
  PROVE  IInv'
BY ReturnType DEF IInv, TypeOK, PendingIsCurrent, EveryStateHasAnOwner,
   TokensFenced, Untouched, core

\* An expected event carries the token of the pending operation.
LEMMA ExpectedIsPending ==
  ASSUME NEW kind, NEW token, Expected(kind, token)
  PROVE  pending # NoPending /\ pending.token = token
BY DEF Expected, EventVerdict

LEMMA ActiveTerminalInv ==
  ASSUME IInv, NEW kind \in EventKinds, NEW token \in Tokens,
         ActiveTerminalEvent(kind, token)
  PROVE  IInv'
<1>1. CASE token.gen # bufferGeneration
  BY <1>1, InertInv DEF ActiveTerminalEvent, Results
<1>2. CASE token.gen = bufferGeneration
  <2>1. /\ update' \in [result : Results, intent : Intents \cup {NoIntent}]
        /\ issued' = issued
    BY <1>2, ReturnType DEF IInv, ActiveTerminalEvent, Results
  <2>2. pending = NoPending
    BY PlaybackSessionAssumption
    DEF IInv, EveryStateHasAnOwner, ActiveTerminalEvent, FromActive
  <2>3. state' \in {"Unavailable", "Failed", "Ended"}
    BY <1>2 DEF ActiveTerminalEvent, FromActive, TerminalState, TerminalEvents
  <2>4. QED
    BY <1>2, <2>1, <2>2, <2>3 DEF IInv, TypeOK, PendingIsCurrent,
       EveryStateHasAnOwner, TokensFenced, ActiveTerminalEvent, SessionStates
<1>3. QED
  BY <1>1, <1>2

LEMMA SourceReadyInv ==
  ASSUME IInv, NEW token \in Tokens, SourceReady(token)
  PROVE  IInv'
<1>1. CASE pending.kind # "Play"
  BY <1>1, InertInv DEF SourceReady, UnexpectedEvent, Results
<1>2. CASE pending.kind = "Play"
  <2>1. pending # NoPending /\ pending.token = token
    BY ExpectedIsPending DEF SourceReady
  <2>2. clock.position \in Nat /\ currentItem \in Items \cup {NoItem}
    BY DEF IInv, TypeOK, Clocks
  <2>3. /\ update' \in [result : Results, intent : Intents \cup {NoIntent}]
        /\ issued' = issued \cup {token}
    BY <1>2, <2>2, ReturnIntentType DEF IInv, SourceReady
  <2>4. TypeOK'
    BY <1>2, <2>3 DEF IInv, TypeOK, SourceReady, SessionStates
  <2>5. PendingIsCurrent' /\ EveryStateHasAnOwner'
    BY <1>2, <2>1 DEF IInv, PendingIsCurrent, EveryStateHasAnOwner, SourceReady
  <2>6. TokensFenced'
    BY <1>2, <2>1, <2>3 DEF IInv, TypeOK, TokensFenced, PendingIsCurrent,
       SourceReady, Tokens
  <2>7. QED
    BY <2>4, <2>5, <2>6 DEF IInv
<1>3. QED
  BY <1>1, <1>2

LEMMA PrebufferReadyInv ==
  ASSUME IInv, NEW token \in Tokens, PrebufferReady(token)
  PROVE  IInv'
<1>1. CASE pending.kind = "Seek" /\ ~pending.applied
  BY <1>1, InertInv DEF PrebufferReady, UnexpectedEvent, Results
<1>2. CASE ~(pending.kind = "Seek" /\ ~pending.applied)
  <2>1. pending # NoPending /\ pending.token = token
    BY ExpectedIsPending DEF PrebufferReady
  <2>2. ActivationClock(pending) \in Clocks
    <3>1. pending \in PendingOperations
      BY <2>1 DEF IInv, TypeOK
    <3>2. /\ ResumeBoundary(clock) \in Clocks
          /\ SourceTransition(clock, 0) \in Clocks
          /\ clock \in Clocks
      BY ClockType DEF IInv, TypeOK
    <3>3. QED
      BY <3>1, <3>2 DEF ActivationClock, PendingOperations
  <2>3. MarkApplied(requests, token.req) \in Trackers
    BY MarkCancelType DEF IInv, TypeOK, Tokens
  <2>4. /\ update' \in [result : Results, intent : Intents \cup {NoIntent}]
        /\ issued' = issued
    BY <1>2, ReturnType DEF IInv, PrebufferReady, Results
  <2>5. TypeOK'
    BY <1>2, <2>2, <2>3, <2>4 DEF IInv, TypeOK, PrebufferReady, SessionStates
  <2>6. PendingIsCurrent' /\ TokensFenced'
    BY <1>2, <2>4 DEF IInv, PendingIsCurrent, TokensFenced, PrebufferReady
  <2>7. EveryStateHasAnOwner'
    BY <1>2, <2>1, PlaybackSessionAssumption
    DEF IInv, PendingIsCurrent, EveryStateHasAnOwner, PrebufferReady
  <2>8. QED
    BY <2>5, <2>6, <2>7 DEF IInv
<1>3. QED
  BY <1>1, <1>2

LEMMA SeekAppliedInv ==
  ASSUME IInv, NEW token \in Tokens, NEW pos \in Positions,
         SeekApplied(token, pos)
  PROVE  IInv'
<1>1. CASE UnexpectedEvent
  BY <1>1, InertInv DEF UnexpectedEvent, Results
<1>2. CASE Return("PayloadMismatch") /\ Untouched /\ UNCHANGED requests
  BY <1>2, InertInv DEF Results
<1>3. CASE /\ pending.kind = "Seek"
           /\ clock' = SeekTo(clock, pos)
           /\ pending' = [pending EXCEPT !.applied = TRUE]
           /\ state' = IF pending.prior = "Paused" THEN state ELSE "Buffering"
           /\ stateVersion' = stateVersion + 1
           /\ ReturnIntent("PrepareBuffer", token, currentItem, pos)
           /\ UNCHANGED <<currentItem, bufferGeneration, activeToken, requests,
                          retired>>
  <2>1. pending # NoPending /\ pending.token = token
    BY ExpectedIsPending DEF SeekApplied
  <2>2. pos \in Nat /\ SeekTo(clock, pos) \in Clocks
    BY ClockType, PlaybackSessionAssumption DEF IInv, TypeOK, Positions
  <2>3. /\ update' \in [result : Results, intent : Intents \cup {NoIntent}]
        /\ issued' = issued \cup {token}
    BY <1>3, <2>2, ReturnIntentType DEF IInv, TypeOK
  <2>4. /\ pending' \in PendingOperations
        /\ pending'.token = token
        /\ pending'.kind = pending.kind
        /\ pending'.prior = pending.prior
    BY <1>3, <2>1 DEF IInv, TypeOK, PendingOperations
  <2>5. TypeOK'
    BY <1>3, <2>2, <2>3, <2>4 DEF IInv, TypeOK, SessionStates
  <2>6. PendingIsCurrent' /\ EveryStateHasAnOwner'
    BY <1>3, <2>1, <2>4, PlaybackSessionAssumption
    DEF IInv, PendingIsCurrent, EveryStateHasAnOwner
  <2>7. TokensFenced'
    BY <1>3, <2>1, <2>3 DEF IInv, TypeOK, TokensFenced, PendingIsCurrent, Tokens
  <2>8. QED
    BY <2>5, <2>6, <2>7 DEF IInv
<1>4. QED
  BY <1>1, <1>2, <1>3 DEF SeekApplied

LEMMA PendingTerminalInv ==
  ASSUME IInv, NEW kind \in EventKinds, NEW token \in Tokens,
         PendingTerminalEvent(kind, token)
  PROVE  IInv'
<1>1. MarkApplied(requests, token.req) \in Trackers
  BY MarkCancelType DEF IInv, TypeOK, Tokens
<1>2. /\ update' \in [result : Results, intent : Intents \cup {NoIntent}]
      /\ issued' = issued
  BY ReturnType DEF IInv, PendingTerminalEvent, Results
<1>3. state' \in {"Unavailable", "Failed", "Ended"}
  BY DEF PendingTerminalEvent, TerminalState, TerminalEvents
<1>4. QED
  BY <1>1, <1>2, <1>3 DEF IInv, TypeOK, PendingIsCurrent, EveryStateHasAnOwner,
     TokensFenced, PendingTerminalEvent, SessionStates

LEMMA WorkerEventInv ==
  ASSUME IInv, NEW kind \in EventKinds, NEW token \in Tokens,
         NEW pos \in Positions, HandleWorkerEvent(kind, token, pos)
  PROVE  IInv'
<1>1. CASE StaleEvent(kind, token)
  <2>1. EventVerdict(token) \in Results
    BY DEF EventVerdict, Classify, Results
  <2>2. QED
    BY <1>1, <2>1, InertInv DEF StaleEvent
<1>2. QED
  BY <1>1, ActiveTerminalInv, SourceReadyInv, PrebufferReadyInv, SeekAppliedInv,
     PendingTerminalInv DEF HandleWorkerEvent
-----------------------------------------------------------------------------
(* The theorems. *)

LEMMA InitInv == Init => IInv
BY DEF Init, IInv, TypeOK, PendingIsCurrent, EveryStateHasAnOwner, TokensFenced,
   NewClock, Clocks, NoReason, NewTracker, Trackers, Records, RequestStates,
   SessionStates, Results, NoReason

LEMMA NextInv == IInv /\ [Next]_vars => IInv'
<1> SUFFICES ASSUME IInv, [Next]_vars PROVE IInv'
  OBVIOUS
<1>1. CASE \E r \in Requests : Dispatch(r)
  BY <1>1, DispatchInv
<1>2. CASE WorkerEvent
  BY <1>2, WorkerEventInv DEF WorkerEvent, IInv, TypeOK
<1>3. CASE \E n \in 1 .. MaxPosition : RecordRenderedFrames(n)
  <2>0. PICK n \in 1 .. MaxPosition : RecordRenderedFrames(n)
    BY <1>3
  <2>1. clock' \in Clocks
    BY <2>0, ClockType, PlaybackSessionAssumption DEF IInv, TypeOK, RecordRenderedFrames
  <2>2. QED
    BY <2>0, <2>1 DEF IInv, TypeOK, PendingIsCurrent, EveryStateHasAnOwner,
       TokensFenced, RecordRenderedFrames
<1>4. CASE Acknowledge
  <2>1. clock' \in Clocks
    BY <1>4, ClockType DEF IInv, TypeOK, Acknowledge
  <2>2. QED
    BY <1>4, <2>1 DEF IInv, TypeOK, PendingIsCurrent, EveryStateHasAnOwner,
       TokensFenced, Acknowledge
<1>5. CASE UNCHANGED vars
  BY <1>5 DEF IInv, TypeOK, PendingIsCurrent, EveryStateHasAnOwner,
     TokensFenced, vars, core
<1>6. QED
  BY <1>1, <1>2, <1>3, <1>4, <1>5 DEF Next

LEMMA Invariance == Spec => []IInv
BY InitInv, NextInv, PTL DEF Spec

\* Every variable of the session has its type in every reachable state.
THEOREM TypeCorrect == Spec => []TypeOK
<1>1. IInv => TypeOK
  BY DEF IInv
<1>2. QED
  BY <1>1, Invariance, PTL

\* The pending operation is always the one its token, the ledger and the
\* generation say it is (session.rs, the debug_assert!(applied) of the handlers).
THEOREM PendingStaysCurrent == Spec => []PendingIsCurrent
<1>1. IInv => PendingIsCurrent
  BY DEF IInv
<1>2. QED
  BY <1>1, Invariance, PTL

\* Whatever the callers and workers do, the session never waits for nobody and
\* never plays what nobody can end.
THEOREM StatesHaveOwners == Spec => []EveryStateHasAnOwner
<1>1. IInv => EveryStateHasAnOwner
  BY DEF IInv
<1>2. QED
  BY <1>1, Invariance, PTL

\* A worker result from before the session moved on changes nothing
\* (session.rs, handle_worker_event), however many requests there are.
THEOREM RetiredInert == Spec => RetiredTokensAreInert
<1>1. IInv => [UNCHANGED <<core, stateVersion, requests>>
                 \/ \A token \in retired, kind \in EventKinds, pos \in Positions :
                      ~HandleWorkerEvent(kind, token, pos)]_vars
  <2> SUFFICES ASSUME IInv,
                      NEW token \in retired, NEW kind \in EventKinds,
                      NEW pos \in Positions,
                      HandleWorkerEvent(kind, token, pos)
               PROVE  UNCHANGED <<core, stateVersion, requests>>
    OBVIOUS
  <2>1. token \in Tokens /\ token.gen < bufferGeneration
    BY DEF IInv, TypeOK, TokensFenced
  <2>2. ~FromActive(kind, token)
    BY <2>1, PlaybackSessionAssumption
    DEF IInv, TypeOK, EveryStateHasAnOwner, FromActive, Tokens
  <2>3. EventVerdict(token) # "Accepted"
    BY <2>1 DEF EventVerdict, Classify, IInv, TypeOK, Tokens
  <2>4. StaleEvent(kind, token)
    BY <2>2, <2>3 DEF HandleWorkerEvent, ActiveTerminalEvent, SourceReady,
       PrebufferReady, SeekApplied, PendingTerminalEvent, Expected
  <2>5. QED
    BY <2>4 DEF StaleEvent, Untouched, core
<1>2. QED
  BY <1>1, Invariance, PTL DEF RetiredTokensAreInert
-----------------------------------------------------------------------------
(* What became of a request is final.                                        *)

\* Recording a fresh request keeps every resolved record, and so does marking
\* or cancelling one: only Active records are ever resolved.
LEMMA RecordKeepsResolved ==
  ASSUME NEW t \in Trackers, NEW q \in Requests,
         t.records[q].st \in Resolved,
         NEW r \in Requests, t.records[r].st = "Unseen", NEW st \in RequestStates
  PROVE  Record(t, r, st).records[q] = t.records[q]
BY DEF Record, Trackers, Resolved, Cancelled

LEMMA CancelKeepsResolved ==
  ASSUME NEW t \in Trackers, NEW q \in Requests,
         t.records[q].st \in Resolved, NEW target \in Requests
  PROVE  Cancel(t, target).records[q] = t.records[q]
<1>1. CASE target = q
  BY <1>1 DEF Cancel, CancellationOutcome, Resolved, Cancelled
<1>2. CASE target # q
  BY <1>2 DEF Cancel, Resolve, Trackers
<1>3. QED
  BY <1>1, <1>2

LEMMA MarkKeepsResolved ==
  ASSUME NEW t \in Trackers, NEW q \in Requests,
         t.records[q].st \in Resolved, NEW r \in Requests
  PROVE  MarkApplied(t, r).records[q] = t.records[q]
BY DEF MarkApplied, Resolve, Trackers, Resolved, Cancelled

\* A command records itself, and may cancel another request first.
LEMMA DispatchKeepsResolved ==
  ASSUME IInv, NEW q \in Requests, requests.records[q].st \in Resolved,
         NEW r \in Requests, Dispatch(r)
  PROVE  requests'.records[q] = requests.records[q]
<1>1. CASE DispatchDuplicate(r)
  BY <1>1 DEF DispatchDuplicate
<1>2. CASE /\ Fresh(r)
           /\ \E st \in RequestStates : requests' = Record(requests, r, st)
  BY <1>2, RecordKeepsResolved DEF IInv, TypeOK, Fresh, Contains
<1>3. CASE \E target \in Requests : DispatchCancel(r, target)
  <2>1. PICK target \in Requests : DispatchCancel(r, target)
    BY <1>3
  <2>2. CASE Reject(r, "UnknownCancellationTarget")
    BY <1>2, <2>1, <2>2 DEF DispatchCancel, Reject, RecordRejected,
       RequestStates, Resolved
  <2>3. CASE /\ r # target
             /\ requests' = RecordApplied(Cancel(requests, target), r)
    <3>1. Cancel(requests, target) \in Trackers
      BY MarkCancelType DEF IInv, TypeOK
    <3>2. Cancel(requests, target).records[q] = requests.records[q]
      BY CancelKeepsResolved DEF IInv, TypeOK
    <3>3. Cancel(requests, target).records[r].st = "Unseen"
      BY <2>1, <2>3 DEF DispatchCancel, Fresh, Contains, Cancel, Resolve, IInv,
         TypeOK, Trackers
    <3>4. QED
      BY <2>3, <3>1, <3>2, <3>3, RecordKeepsResolved
      DEF RecordApplied, RequestStates, Resolved
  <2>4. QED
    BY <2>1, <2>2, <2>3 DEF DispatchCancel
<1>4. CASE DispatchPause(r) \/ DispatchResume(r) \/ DispatchStop(r)
  BY <1>2, <1>4 DEF DispatchPause, DispatchResume, DispatchStop, Reject,
     BeginOperation, Start, RecordApplied, RecordRejected, RequestStates, Resolved
<1>5. CASE \/ \E i \in Items \cup {NoItem} : DispatchPlay(r, i)
           \/ \E pos \in Positions : DispatchSeek(r, pos)
           \/ DispatchQueueCommand(r)
  BY <1>2, <1>5 DEF DispatchPlay, DispatchSeek, DispatchQueueCommand, Reject,
     BeginOperation, Start, RecordRejected, RequestStates, Resolved
<1>6. QED
  BY <1>1, <1>3, <1>4, <1>5 DEF Dispatch

\* A cancelled operation is never applied by a late worker, an applied one never
\* cancelled, and no request id is used twice (command.rs, RequestTracker).
THEOREM ResolvedStaysResolved == Spec => ResolutionIsFinal
<1>1. IInv /\ [Next]_vars =>
        \A r \in Requests :
          requests.records[r].st \in Resolved =>
            requests'.records[r] = requests.records[r]
  <2> SUFFICES ASSUME IInv, [Next]_vars, NEW q \in Requests,
                      requests.records[q].st \in Resolved
               PROVE  requests'.records[q] = requests.records[q]
    OBVIOUS
  <2>1. CASE \E r \in Requests : Dispatch(r)
    BY <2>1, DispatchKeepsResolved
  <2>2. CASE WorkerEvent
    <3>1. PICK token \in issued, kind \in EventKinds, pos \in Positions :
             HandleWorkerEvent(kind, token, pos)
      BY <2>2 DEF WorkerEvent
    <3>2. token.req \in Requests
      BY DEF IInv, TypeOK, Tokens
    <3>3. requests' = requests \/ requests' = MarkApplied(requests, token.req)
      BY <3>1 DEF HandleWorkerEvent, ActiveTerminalEvent, StaleEvent,
         SourceReady, PrebufferReady, SeekApplied, PendingTerminalEvent,
         UnexpectedEvent
    <3>4. QED
      BY <3>2, <3>3, MarkKeepsResolved DEF IInv, TypeOK
  <2>3. CASE \/ \E n \in 1 .. MaxPosition : RecordRenderedFrames(n)
           \/ Acknowledge \/ UNCHANGED vars
    BY <2>3 DEF RecordRenderedFrames, Acknowledge, vars
  <2>4. QED
    BY <2>1, <2>2, <2>3 DEF Next
<1>2. QED
  BY <1>1, Invariance, PTL DEF Spec, ResolutionIsFinal
-----------------------------------------------------------------------------
(* The session implements CommandLedger.                                     *)

\* Recording a fresh command changes its status and no other.
LEMMA RecordStatus ==
  ASSUME TypeOK, NEW r \in Requests, NEW st \in RequestStates,
         requests' = Record(requests, r, st)
  PROVE  LedgerStatus' = [LedgerStatus EXCEPT ![r] = StatusOf(st)]
<1>1. \A q \in Requests :
        requests'.records[q].st = IF q = r THEN st ELSE requests.records[q].st
  BY DEF TypeOK, Record, Trackers
<1>2. QED
  BY <1>1 DEF LedgerStatus

\* Marking an Active request applied changes its status and no other.
LEMMA MarkStatus ==
  ASSUME TypeOK, NEW r \in Requests, requests.records[r].st = "Active",
         requests' = MarkApplied(requests, r)
  PROVE  LedgerStatus' = [LedgerStatus EXCEPT ![r] = "applied"]
<1>1. \A q \in Requests :
        requests'.records[q].st = IF q = r THEN "Applied"
                                  ELSE requests.records[q].st
  BY DEF TypeOK, MarkApplied, Resolve, Trackers
<1>2. QED
  BY <1>1 DEF LedgerStatus, StatusOf, Cancelled

\* A fresh request is unseen in the ledger.
LEMMA FreshStatus ==
  ASSUME NEW r \in Requests, Fresh(r)
  PROVE  LedgerStatus[r] = "unseen"
BY DEF Fresh, Contains, LedgerStatus, StatusOf

\* The owner is a request or nobody.
LEMMA OwnerType ==
  ASSUME TypeOK
  PROVE  /\ LedgerOwner \in Requests \cup {NoToken}
         /\ LedgerOwner = NoToken <=> pending = NoPending
BY PlaybackSessionAssumption DEF TypeOK, LedgerOwner, PendingOperations, Tokens

\* A rejected command is a Refuse.
LEMMA RejectLedger ==
  ASSUME IInv, NEW r \in Requests, NEW reason, Fresh(r), Reject(r, reason)
  PROVE  Ledger!Next
<1>1. LedgerStatus' = [LedgerStatus EXCEPT ![r] = "rejected"]
  BY RecordStatus DEF IInv, Reject, RecordRejected, RequestStates, Resolved,
     StatusOf, Cancelled
<1>2. LedgerOwner' = LedgerOwner
  BY DEF Reject, Untouched, core, LedgerOwner
<1>3. Ledger!Refuse(r)
  BY <1>1, <1>2, FreshStatus DEF Ledger!Refuse
<1>4. QED
  BY <1>3 DEF Ledger!Next

\* A command applied on the spot is an ApplyNow.
LEMMA ApplyLedger ==
  ASSUME IInv, NEW r \in Requests, Fresh(r),
         requests' = RecordApplied(requests, r),
         pending' \in {pending, NoPending}
  PROVE  Ledger!Next
<1>1. LedgerStatus' = [LedgerStatus EXCEPT ![r] = "applied"]
  BY RecordStatus DEF IInv, RecordApplied, RequestStates, Resolved, StatusOf,
     Cancelled
<1>2. LedgerOwner' \in {LedgerOwner, NoToken}
  BY DEF LedgerOwner
<1>3. Ledger!ApplyNow(r)
  BY <1>1, <1>2, FreshStatus DEF Ledger!ApplyNow
<1>4. QED
  BY <1>3 DEF Ledger!Next

\* A command that starts an operation is a Begin.
LEMMA BeginLedger ==
  ASSUME IInv, NEW r \in Requests, Fresh(r),
         NEW operation \in PendingOperations, operation.token.req = r,
         BeginOperation(r, operation)
  PROVE  Ledger!Next
<1>1. LedgerStatus' = [LedgerStatus EXCEPT ![r] = "pending"]
  BY RecordStatus DEF IInv, BeginOperation, Start, RequestStates, StatusOf
<1>2. LedgerOwner' = r
  BY PlaybackSessionAssumption DEF LedgerOwner, BeginOperation
<1>3. Ledger!Begin(r)
  BY <1>1, <1>2, FreshStatus DEF Ledger!Begin
<1>4. QED
  BY <1>3 DEF Ledger!Next

\* A cancel is a Cancel of a pending request, or records itself only.
LEMMA CancelLedger ==
  ASSUME IInv, NEW r \in Requests, NEW target \in Requests, r # target,
         DispatchCancel(r, target)
  PROVE  Ledger!Next
<1> DEFINE outcome == CancellationOutcome(requests, target)
           hit == /\ pending # NoPending
                  /\ pending.token.req = target
                  /\ outcome = "CancelledBeforeCommit"
<1>1. CASE Reject(r, "UnknownCancellationTarget")
  BY <1>1, RejectLedger DEF DispatchCancel
<1>2. CASE /\ outcome # "UnknownRequest"
           /\ requests' = RecordApplied(Cancel(requests, target), r)
           /\ IF hit THEN Boundary("Stopped", clock) ELSE Untouched
  <2>1. Fresh(r)
    BY DEF DispatchCancel
  <2>2. CASE requests.records[target].st = "Active"
    <3>1. outcome \in {"CancelledBeforeCommit", "OutcomeUnknown"}
      BY <2>2 DEF CancellationOutcome, Cancelled
    <3>2. \A q \in Requests :
            /\ q \notin {r, target} =>
                 requests'.records[q].st = requests.records[q].st
            /\ requests'.records[r].st = "Applied"
            /\ requests'.records[target].st \in Cancelled
      BY <1>2, <3>1, MarkCancelType DEF IInv, TypeOK, RecordApplied, Record,
         Cancel, Resolve, Trackers, Cancelled
    <3>3. LedgerStatus' =
            [LedgerStatus EXCEPT ![target] = "cancelled", ![r] = "applied"]
      BY <3>2 DEF LedgerStatus, StatusOf, Cancelled
    <3>4. LedgerStatus[target] = "pending"
      BY <2>2 DEF LedgerStatus, StatusOf
    <3>5. (pending # NoPending /\ pending.token.req = target) => hit
      BY <2>2 DEF IInv, PendingIsCurrent, CancellationOutcome, Cancelled
    <3>6. LedgerOwner' =
            IF LedgerOwner = target THEN NoToken ELSE LedgerOwner
      BY <1>2, <3>5, PlaybackSessionAssumption
      DEF LedgerOwner, Boundary, Untouched, core
    <3>7. Ledger!Cancel(r, target)
      BY <2>1, <3>3, <3>4, <3>6, FreshStatus DEF Ledger!Cancel
    <3>8. QED
      BY <3>7 DEF Ledger!Next
  <2>3. CASE requests.records[target].st # "Active"
    <3>1. outcome \notin {"CancelledBeforeCommit", "OutcomeUnknown"}
      BY <2>3 DEF CancellationOutcome
    <3>2. requests' = RecordApplied(requests, r) /\ pending' = pending
      BY <1>2, <3>1 DEF Cancel, Untouched, core
    <3>3. QED
      BY <2>1, <3>2, ApplyLedger
  <2>4. QED
    BY <2>2, <2>3
<1>3. QED
  BY <1>1, <1>2 DEF DispatchCancel

\* Every command maps to one step of the ledger or to none.
LEMMA DispatchLedger ==
  ASSUME IInv, NEW r \in Requests, Dispatch(r)
  PROVE  Ledger!Next \/ UNCHANGED <<LedgerStatus, LedgerOwner>>
<1>1. CASE DispatchDuplicate(r)
  BY <1>1 DEF DispatchDuplicate, Untouched, core, LedgerStatus, LedgerOwner
<1>2. CASE \E i \in Items \cup {NoItem} : DispatchPlay(r, i)
  <2>1. PICK i \in Items \cup {NoItem} : DispatchPlay(r, i)
    BY <1>2
  <2> DEFINE resumes == state = "Paused" /\
                        (IF i = NoItem THEN currentItem ELSE i) = currentItem
  <2>2. /\ PendingPlay(StartToken(r), resumes) \in PendingOperations
        /\ PendingPlay(StartToken(r), resumes).token.req = r
    BY TokenType DEF IInv, TypeOK, PendingPlay, PendingOperations, StartToken,
       TokenFor, NextGeneration, SessionStates
  <2>3. QED
    BY <2>1, <2>2, RejectLedger, BeginLedger DEF DispatchPlay
<1>3. CASE DispatchPause(r)
  BY <1>3, RejectLedger, ApplyLedger DEF DispatchPause, Boundary, Untouched, core
<1>4. CASE DispatchResume(r)
  <2>1. /\ PendingResume(StartToken(r)) \in PendingOperations
        /\ PendingResume(StartToken(r)).token.req = r
    BY TokenType DEF IInv, TypeOK, PendingResume, PendingOperations, StartToken,
       TokenFor, NextGeneration, SessionStates
  <2>2. QED
    BY <1>4, <2>1, RejectLedger, ApplyLedger, BeginLedger
    DEF DispatchResume, Untouched, core
<1>5. CASE \E pos \in Positions : DispatchSeek(r, pos)
  <2>1. PICK pos \in Positions : DispatchSeek(r, pos)
    BY <1>5
  <2>2. /\ PendingSeek(StartToken(r), pos, state) \in PendingOperations
        /\ PendingSeek(StartToken(r), pos, state).token.req = r
    BY TokenType, PlaybackSessionAssumption DEF IInv, TypeOK, PendingSeek,
       PendingOperations, StartToken, TokenFor, NextGeneration, Positions
  <2>3. QED
    BY <2>1, <2>2, RejectLedger, BeginLedger DEF DispatchSeek
<1>6. CASE DispatchStop(r)
  BY <1>6, ApplyLedger DEF DispatchStop, Boundary, Untouched, core
<1>7. CASE \E target \in Requests : DispatchCancel(r, target)
  BY <1>7, CancelLedger, RejectLedger DEF DispatchCancel
<1>8. CASE DispatchQueueCommand(r)
  BY <1>8, RejectLedger DEF DispatchQueueCommand
<1>9. QED
  BY <1>1, <1>2, <1>3, <1>4, <1>5, <1>6, <1>7, <1>8 DEF Dispatch

\* A worker that completes the pending operation is a Finish.
LEMMA FinishLedger ==
  ASSUME IInv, pending # NoPending,
         requests' = MarkApplied(requests, pending.token.req),
         pending' = NoPending
  PROVE  Ledger!Next
<1>1. /\ pending.token.req \in Requests
      /\ requests.records[pending.token.req].st = "Active"
      /\ LedgerOwner = pending.token.req
  BY DEF IInv, TypeOK, PendingOperations, Tokens, PendingIsCurrent, LedgerOwner
<1>2. LedgerStatus' = [LedgerStatus EXCEPT ![LedgerOwner] = "applied"]
  BY <1>1, MarkStatus DEF IInv
<1>3. LedgerStatus[LedgerOwner] = "pending"
  BY <1>1 DEF LedgerStatus, StatusOf
<1>4. LedgerOwner # NoToken /\ LedgerOwner' = NoToken
  BY <1>1, PlaybackSessionAssumption DEF LedgerOwner
<1>5. Ledger!Finish
  BY <1>2, <1>3, <1>4 DEF Ledger!Finish
<1>6. QED
  BY <1>5 DEF Ledger!Next

\* So is an event at most.
LEMMA WorkerEventLedger ==
  ASSUME IInv, NEW kind \in EventKinds, NEW token \in Tokens,
         NEW pos \in Positions, HandleWorkerEvent(kind, token, pos)
  PROVE  Ledger!Next \/ UNCHANGED <<LedgerStatus, LedgerOwner>>
<1>1. CASE requests' = requests /\ pending' = pending
  BY <1>1 DEF LedgerStatus, LedgerOwner
<1>2. CASE PrebufferReady(token)
  BY <1>1, <1>2, ExpectedIsPending, FinishLedger
  DEF PrebufferReady, UnexpectedEvent, Untouched, core
<1>3. CASE PendingTerminalEvent(kind, token)
  BY <1>3, ExpectedIsPending, FinishLedger DEF PendingTerminalEvent
<1>4. CASE SeekApplied(token, pos)
  <2>1. CASE pending' = [pending EXCEPT !.applied = TRUE] /\ requests' = requests
    <3>1. pending # NoPending /\ pending \in PendingOperations
      BY <1>4, ExpectedIsPending DEF SeekApplied, IInv, TypeOK
    <3>2. pending' \in PendingOperations /\ pending'.token = pending.token
      BY <2>1, <3>1 DEF PendingOperations
    <3>3. pending' # NoPending
      BY <3>2, PlaybackSessionAssumption
    <3>4. LedgerOwner' = LedgerOwner
      BY <3>1, <3>2, <3>3 DEF LedgerOwner
    <3>5. LedgerStatus' = LedgerStatus
      BY <2>1 DEF LedgerStatus
    <3>6. QED
      BY <3>4, <3>5
  <2>2. QED
    BY <1>1, <1>4, <2>1 DEF SeekApplied, UnexpectedEvent, Untouched, core
<1>5. CASE SourceReady(token)
  BY <1>1, <1>5 DEF SourceReady, UnexpectedEvent, Untouched, core
<1>6. CASE StaleEvent(kind, token) \/ ActiveTerminalEvent(kind, token)
  BY <1>1, <1>6 DEF StaleEvent, ActiveTerminalEvent, Untouched, core
<1>7. QED
  BY <1>2, <1>3, <1>4, <1>5, <1>6 DEF HandleWorkerEvent

\* The session implements the ledger of commands: every id is used once, only
\* the owner is ever applied by a worker, and no outcome changes (command.rs,
\* RequestTracker, as session.rs uses it).
THEOREM SessionImplementsLedger == Spec => ImplementsLedger
<1>1. Init => Ledger!Init
  BY DEF Init, Ledger!Init, LedgerStatus, LedgerOwner, StatusOf, NewTracker
<1>2. IInv /\ [Next]_vars => [Ledger!Next]_(Ledger!vars)
  <2> SUFFICES ASSUME IInv, [Next]_vars
               PROVE  Ledger!Next \/ UNCHANGED <<LedgerStatus, LedgerOwner>>
    BY DEF Ledger!vars
  <2>1. CASE \E r \in Requests : Dispatch(r)
    BY <2>1, DispatchLedger
  <2>2. CASE WorkerEvent
    BY <2>2, WorkerEventLedger DEF WorkerEvent, IInv, TypeOK
  <2>3. CASE \/ \E n \in 1 .. MaxPosition : RecordRenderedFrames(n)
           \/ Acknowledge \/ UNCHANGED vars
    BY <2>3 DEF RecordRenderedFrames, Acknowledge, vars, core, LedgerStatus,
       LedgerOwner
  <2>4. QED
    BY <2>1, <2>2, <2>3 DEF Next
<1>3. QED
  BY <1>1, <1>2, Invariance, PTL DEF Spec, ImplementsLedger, Ledger!Spec
-----------------------------------------------------------------------------
(* What clients are told.  Time is recomputed from the base of its epoch, so *)
(* that it never runs backwards needs the base and the position to agree.    *)

ClockFollowsBase == clock.position = clock.base + clock.frames

\* How a call moves the clock, if it does.
ClockMoves ==
  \/ clock' = clock
  \/ clock' = PauseBoundary(clock) /\ state' = "Paused" /\ state # "Paused"
  \/ clock' = StopBoundary(clock) /\ state' = "Stopped"
  \/ \E pos \in Nat :
       /\ clock' = SeekTo(clock, pos)
       /\ pending # NoPending /\ pos = pending.position
  \/ clock' = ResumeBoundary(clock)
  \/ clock' = SourceTransition(clock, 0) /\ state' = "Playing"
  \/ \E n \in Nat : clock' = AdvanceRenderedFrames(clock, n) /\ state' = "Playing"
  \/ clock' = AcknowledgeDiscontinuity(clock) /\ state' = state

LEMMA CommandMovesClock ==
  ASSUME NEW r \in Requests, Dispatch(r)
  PROVE  ClockMoves
<1>1. CASE DispatchPause(r) \/ DispatchStop(r)
  BY <1>1 DEF DispatchPause, DispatchStop, Reject, Untouched, core, Boundary, ClockMoves
<1>2. CASE \E target \in Requests : DispatchCancel(r, target)
  BY <1>2 DEF DispatchCancel, Reject, Untouched, core, Boundary, ClockMoves
<1>3. CASE \/ \E i \in Items \cup {NoItem} : DispatchPlay(r, i)
           \/ \E pos \in Positions : DispatchSeek(r, pos)
           \/ DispatchDuplicate(r) \/ DispatchResume(r) \/ DispatchQueueCommand(r)
  BY <1>3 DEF DispatchPlay, DispatchSeek, DispatchDuplicate, DispatchResume,
     DispatchQueueCommand, Reject, Untouched, core, ClockMoves
<1>4. QED
  BY <1>1, <1>2, <1>3 DEF Dispatch

LEMMA EventMovesClock ==
  ASSUME IInv, NEW token \in issued, NEW kind \in EventKinds, NEW pos \in Positions,
         HandleWorkerEvent(kind, token, pos)
  PROVE  ClockMoves
<1>1. CASE \/ ActiveTerminalEvent(kind, token) \/ StaleEvent(kind, token)
           \/ SourceReady(token) \/ PendingTerminalEvent(kind, token)
  BY <1>1 DEF ActiveTerminalEvent, StaleEvent, SourceReady, PendingTerminalEvent,
     UnexpectedEvent, Untouched, core, ClockMoves
<1>2. CASE SeekApplied(token, pos)
  <2>1. pending # NoPending /\ pos \in Nat
    BY <1>2, ExpectedIsPending, PlaybackSessionAssumption DEF SeekApplied, Positions
  <2>2. QED
    BY <1>2, <2>1 DEF SeekApplied, UnexpectedEvent, Untouched, core, ClockMoves
<1>3. CASE PrebufferReady(token)
  <2>1. pending # NoPending /\ pending \in PendingOperations
    BY <1>3, ExpectedIsPending DEF PrebufferReady, IInv, TypeOK
  <2>2. CASE pending.kind = "Seek"
    <3>1. ActivationClock(pending) \in {ResumeBoundary(clock), clock}
      BY <2>1, <2>2 DEF ActivationClock, PendingOperations
    <3>2. QED
      BY <1>3, <3>1 DEF PrebufferReady, UnexpectedEvent, Untouched, core, ClockMoves
  <2>3. CASE pending.kind # "Seek"
    <3>1. ActivationClock(pending) \in {ResumeBoundary(clock), SourceTransition(clock, 0)}
      BY <2>1, <2>3 DEF ActivationClock, PendingOperations
    <3>2. QED
      BY <1>3, <2>3, <3>1 DEF PrebufferReady, UnexpectedEvent, Untouched, core, ClockMoves
  <2>4. QED
    BY <2>2, <2>3
<1>4. QED
  BY <1>1, <1>2, <1>3 DEF HandleWorkerEvent

\* Every step but the quiet ones moves the clock in one of these ways.
LEMMA StepMovesClock ==
  ASSUME IInv, [Next]_vars
  PROVE  ClockMoves
<1>1. CASE \E n \in 1 .. MaxPosition : RecordRenderedFrames(n)
  <2>1. PICK n \in 1 .. MaxPosition : RecordRenderedFrames(n)
    BY <1>1
  <2>2. QED
    BY <2>1, PlaybackSessionAssumption DEF RecordRenderedFrames, ClockMoves
<1>2. CASE Acknowledge \/ UNCHANGED vars
  BY <1>2 DEF Acknowledge, vars, core, ClockMoves
<1>3. CASE (\E r \in Requests : Dispatch(r)) \/ WorkerEvent
  BY <1>3, CommandMovesClock, EventMovesClock DEF WorkerEvent
<1>4. QED
  BY <1>1, <1>2, <1>3 DEF Next

LEMMA ClockStep ==
  ASSUME TypeOK, ClockFollowsBase, ClockMoves
  PROVE  /\ ClockFollowsBase'
         /\ clock'.epoch = clock.epoch =>
              clock'.base = clock.base /\ clock'.position >= clock.position
         /\ clock'.position < clock.position =>
              clock'.reason \in {"Seek", "Stop", "SourceTransition"}
         /\ state = "Paused" /\ state' = "Paused"
              /\ clock'.position # clock.position =>
                pending # NoPending /\ clock'.position = pending.position
<1>1. clock \in Clocks
  BY DEF TypeOK
<1>2. CASE clock' = clock
  BY <1>1, <1>2 DEF ClockFollowsBase, Clocks
<1>3. CASE clock' = PauseBoundary(clock) /\ state' = "Paused" /\ state # "Paused"
  BY <1>1, <1>3 DEF ClockFollowsBase, PauseBoundary, BeginEpoch, Clocks
<1>4. CASE clock' = StopBoundary(clock) /\ state' = "Stopped"
  BY <1>1, <1>4 DEF ClockFollowsBase, StopBoundary, BeginEpoch, Clocks
<1>5. CASE \E pos \in Nat : /\ clock' = SeekTo(clock, pos)
                            /\ pending # NoPending /\ pos = pending.position
  BY <1>1, <1>5 DEF ClockFollowsBase, SeekTo, BeginEpoch, Clocks
<1>6. CASE clock' = ResumeBoundary(clock)
  BY <1>1, <1>6 DEF ClockFollowsBase, ResumeBoundary, BeginEpoch, Clocks
<1>7. CASE clock' = SourceTransition(clock, 0) /\ state' = "Playing"
  BY <1>1, <1>7 DEF ClockFollowsBase, SourceTransition, BeginEpoch, Clocks
<1>8. CASE \E n \in Nat : clock' = AdvanceRenderedFrames(clock, n) /\ state' = "Playing"
  BY <1>1, <1>8 DEF ClockFollowsBase, AdvanceRenderedFrames, Clocks
<1>9. CASE clock' = AcknowledgeDiscontinuity(clock) /\ state' = state
  BY <1>1, <1>9 DEF ClockFollowsBase, AcknowledgeDiscontinuity, Clocks
<1>10. QED
  BY <1>2, <1>3, <1>4, <1>5, <1>6, <1>7, <1>8, <1>9 DEF ClockMoves

LEMMA ClockInvariance == Spec => []ClockFollowsBase
<1>1. Init => ClockFollowsBase
  BY DEF Init, NewClock, ClockFollowsBase
<1>2. IInv /\ ClockFollowsBase /\ [Next]_vars => ClockFollowsBase'
  BY StepMovesClock, ClockStep DEF IInv
<1>3. QED
  BY <1>1, <1>2, Invariance, PTL DEF Spec

\* What bumps the version: every change but that of the clock, the ledger and
\* the histories.
LEMMA VersionStep ==
  ASSUME IInv, [Next]_vars,
         <<state, currentItem, bufferGeneration, pending>>' #
           <<state, currentItem, bufferGeneration, pending>>
  PROVE  stateVersion' = stateVersion + 1
<1>1. CASE \E r \in Requests : Dispatch(r)
  BY <1>1 DEF Dispatch, DispatchDuplicate, DispatchPlay, DispatchPause,
     DispatchResume, DispatchSeek, DispatchStop, DispatchCancel,
     DispatchQueueCommand, Reject, Untouched, core, BeginOperation, Boundary
<1>2. CASE WorkerEvent
  BY <1>2 DEF WorkerEvent, HandleWorkerEvent, ActiveTerminalEvent, StaleEvent,
     SourceReady, PrebufferReady, SeekApplied, PendingTerminalEvent,
     UnexpectedEvent, Untouched, core
<1>3. CASE \/ \E n \in 1 .. MaxPosition : RecordRenderedFrames(n)
           \/ Acknowledge \/ UNCHANGED vars
  BY <1>3 DEF RecordRenderedFrames, Acknowledge, vars, core
<1>4. QED
  BY <1>1, <1>2, <1>3 DEF Next

\* A client that polls misses no change of the session and no jump of its time,
\* however many requests, positions and events there are (session.rs,
\* clock.rs).
THEOREM ChangesStayTold == Spec => ChangesAreTold
<1>1. IInv /\ [Next]_vars =>
        (<<state, currentItem, bufferGeneration, pending>>' #
           <<state, currentItem, bufferGeneration, pending>>
         => stateVersion' > stateVersion)
  BY VersionStep DEF IInv, TypeOK
<1>2. IInv /\ ClockFollowsBase /\ [Next]_vars =>
        /\ clock'.epoch = clock.epoch =>
             clock'.base = clock.base /\ clock'.position >= clock.position
        /\ clock'.position < clock.position =>
             clock'.reason \in {"Seek", "Stop", "SourceTransition"}
        /\ state = "Paused" /\ state' = "Paused"
             /\ clock'.position # clock.position =>
               pending # NoPending /\ clock'.position = pending.position
  BY StepMovesClock, ClockStep DEF IInv
<1>3. Spec => VersionTellsChanges
  BY <1>1, Invariance, PTL DEF Spec, VersionTellsChanges
<1>4. Spec => TimelineIsContinuous
  BY <1>2, Invariance, ClockInvariance, PTL DEF Spec, TimelineIsContinuous
<1>5. QED
  BY <1>3, <1>4, PTL DEF ChangesAreTold
=============================================================================
