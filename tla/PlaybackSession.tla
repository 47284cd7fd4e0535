-------------------------- MODULE PlaybackSession --------------------------
(***************************************************************************)
(* The playback session of aurorix-playback (session.rs): callers dispatch *)
(* commands, the session answers each with a result and at most one intent *)
(* for a worker, and workers send events back that carry the token of the  *)
(* intent.  The session runs on one thread at a time (&mut self); what is  *)
(* concurrent is the worker: an event may come late, twice, in another     *)
(* order than the intents, or never.  `issued' holds every token handed    *)
(* out, and a worker may report any event of any of them at any time.      *)
(*                                                                         *)
(* Left out: the u64 exhaustion errors; the item id of a token's intent is *)
(* kept only in the intent.                                                *)
(***************************************************************************)
EXTENDS RequestTracker, PresentationClock

CONSTANTS
  Items,         \* the media identities a caller may select
  NoItem,        \* no item selected, or none given to Play
  NoPending,     \* no worker operation pending
  NoToken,       \* no active operation
  NoIntent,      \* the update asks no worker for anything
  MaxPosition,   \* bound: the last media position
  MaxVersion     \* bound: worker events accepted by the session stop here

SessionStates ==
  {"Empty", "Loading", "Buffering", "Playing", "Paused", "Stopped", "Ended",
   "Failed", "Unavailable"}

Positions == 0 .. MaxPosition

\* A pending operation.  `resumes' is resumes_from_pause of a Play, `position',
\* `prior' and `applied' belong to a Seek; the other kinds leave them at their
\* least value.
PendingOperations ==
  [kind : {"Play", "Resume", "Seek"}, token : Tokens, resumes : BOOLEAN,
   position : Nat, prior : SessionStates, applied : BOOLEAN]

ASSUME PlaybackSessionAssumption ==
  /\ NoItem \notin Items
  /\ NoToken \notin Tokens \cup Requests
  /\ NoPending \notin PendingOperations
  /\ MaxPosition \in Nat
  /\ MaxVersion \in Nat

VARIABLES
  state,             \* SessionState
  currentItem,
  clock,             \* PresentationClock
  stateVersion,
  bufferGeneration,
  pending,           \* the PendingOperation a worker owes an answer for
  activeToken,       \* the applied operation that may still end or fail
  requests,          \* RequestTracker
  update,            \* SessionUpdate or WorkerUpdate the last call returned
  issued,            \* history: tokens of all intents so far
  retired            \* history: those issued when the session last moved on

core == <<state, currentItem, clock, bufferGeneration, pending, activeToken>>
vars == <<core, stateVersion, requests, update, issued, retired>>

PendingPlay(token, resumes) ==
  [kind |-> "Play", token |-> token, resumes |-> resumes, position |-> 0,
   prior |-> "Empty", applied |-> FALSE]

PendingResume(token) ==
  [kind |-> "Resume", token |-> token, resumes |-> FALSE, position |-> 0,
   prior |-> "Empty", applied |-> FALSE]

PendingSeek(token, pos, prior) ==
  [kind |-> "Seek", token |-> token, resumes |-> FALSE, position |-> pos,
   prior |-> prior, applied |-> FALSE]

\* A worker intent: what, under which token, for which item, from where.
Intent(kind, token, item, pos) ==
  [kind |-> kind, token |-> token, item |-> item, position |-> pos]

Intents ==
  [kind : {"ResolveSource", "PrepareBuffer", "Seek", "Pause", "Stop"},
   token : Tokens, item : Items \cup {NoItem}, position : Nat]

Results ==
  {"None", "Accepted", "DuplicateRequest", "InvalidState", "NoCurrentItem",
   "UnknownCancellationTarget", "QueuePolicyNotReady",
   "UnexpectedWorkerEvent", "Cancelled", "UnknownRequest",
   "BufferGenerationChanged", "RequestSuperseded", "RequestNoLongerPending",
   "PayloadMismatch", "CancelledBeforeCommit", "OutcomeUnknown",
   "AlreadyApplied", "AlreadyCancelled"}

TypeOK ==
  /\ state \in SessionStates
  /\ currentItem \in Items \cup {NoItem}
  /\ clock \in Clocks
  /\ stateVersion \in Nat
  /\ bufferGeneration \in Nat
  /\ pending \in PendingOperations \cup {NoPending}
  /\ activeToken \in Tokens \cup {NoToken}
  /\ requests \in Trackers
  /\ update \in [result : Results, intent : Intents \cup {NoIntent}]
  /\ issued \subseteq Tokens
  /\ retired \subseteq issued

Init ==
  /\ state = "Empty"
  /\ currentItem = NoItem
  /\ clock = NewClock
  /\ stateVersion = 0
  /\ bufferGeneration = 0
  /\ pending = NoPending
  /\ activeToken = NoToken
  /\ requests = NewTracker
  /\ update = [result |-> "None", intent |-> NoIntent]
  /\ issued = {}
  /\ retired = {}

-----------------------------------------------------------------------------
(* What a call returns. *)

Return(result) ==
  /\ update' = [result |-> result, intent |-> NoIntent]
  /\ UNCHANGED issued

ReturnIntent(kind, token, item, pos) ==
  /\ update' = [result |-> "Accepted", intent |-> Intent(kind, token, item, pos)]
  /\ issued' = issued \cup {token}

\* The session keeps what it had.
Untouched == UNCHANGED <<core, stateVersion, retired>>

\* A rejected command is recorded, and changes nothing else.
Reject(r, reason) ==
  /\ requests' = RecordRejected(requests, r)
  /\ Return(reason)
  /\ Untouched

\* Every operation a worker takes on retires the generation before it.
NextGeneration == bufferGeneration + 1

\* Mutant: the token is made before the generation moves on.
MutantStartToken(r) == TokenFor(requests, r, bufferGeneration)

StartToken(r) == TokenFor(requests, r, NextGeneration)

\* Mutant: the operation that was playing keeps its right to end or fail.
MutantBeginOperation(r, operation) ==
  /\ requests' = Start(requests, r)
  /\ bufferGeneration' = NextGeneration
  /\ pending' = operation
  /\ stateVersion' = stateVersion + 1
  /\ retired' = issued
  /\ UNCHANGED activeToken

BeginOperation(r, operation) ==
  /\ requests' = Start(requests, r)
  /\ bufferGeneration' = NextGeneration
  /\ pending' = operation
  /\ activeToken' = NoToken
  /\ stateVersion' = stateVersion + 1
  /\ retired' = issued

\* Mutant: the boundary changes the state and the clock only.
MutantBoundary(newState, newClock) ==
  /\ state' = newState
  /\ clock' = newClock
  /\ stateVersion' = stateVersion + 1
  /\ retired' = issued
  /\ UNCHANGED <<currentItem, bufferGeneration, pending, activeToken>>

\* A boundary takes effect at once and leaves nothing to wait for.
Boundary(newState, newClock) ==
  /\ bufferGeneration' = NextGeneration
  /\ pending' = NoPending
  /\ activeToken' = NoToken
  /\ state' = newState
  /\ clock' = newClock
  /\ stateVersion' = stateVersion + 1
  /\ retired' = issued
  /\ UNCHANGED currentItem

-----------------------------------------------------------------------------
(* Commands. *)

Fresh(r) == ~Contains(requests, r)

DispatchDuplicate(r) ==
  /\ Contains(requests, r)
  /\ Return("DuplicateRequest")
  /\ Untouched
  /\ UNCHANGED requests

Playable == {"Empty", "Paused", "Stopped", "Ended", "Failed", "Unavailable"}

DispatchPlay(r, requested) ==
  LET selected == IF requested = NoItem THEN currentItem ELSE requested
      resumes  == state = "Paused" /\ selected = currentItem
  IN
  /\ Fresh(r)
  /\ \/ /\ state \notin Playable
        /\ Reject(r, "InvalidState")
     \/ /\ state \in Playable
        /\ selected = NoItem
        /\ Reject(r, "NoCurrentItem")
     \/ /\ state \in Playable
        /\ selected # NoItem
        /\ BeginOperation(r, PendingPlay(StartToken(r), resumes))
        /\ currentItem' = selected
        /\ state' = "Loading"
        /\ ReturnIntent("ResolveSource", StartToken(r), selected, 0)
        /\ UNCHANGED clock

\* Paused, stopped or ended sessions answer a Pause with the intent alone.
DispatchPause(r) ==
  LET needsBoundary == state \in {"Loading", "Buffering", "Playing"}
      gen == IF needsBoundary THEN NextGeneration ELSE bufferGeneration
  IN
  /\ Fresh(r)
  /\ \/ state = "Empty" /\ Reject(r, "InvalidState")
     \/ /\ state # "Empty"
        /\ requests' = RecordApplied(requests, r)
        /\ ReturnIntent("Pause", TokenFor(requests, r, gen), NoItem, 0)
        /\ IF needsBoundary
           THEN Boundary("Paused", PauseBoundary(clock))
           ELSE Untouched

DispatchResume(r) ==
  /\ Fresh(r)
  /\ \/ /\ state = "Playing"
        /\ requests' = RecordApplied(requests, r)
        /\ Return("Accepted")
        /\ Untouched
     \/ state \notin {"Playing", "Paused"} /\ Reject(r, "InvalidState")
     \/ /\ state = "Paused"
        /\ currentItem = NoItem
        /\ Reject(r, "NoCurrentItem")
     \/ /\ state = "Paused"
        /\ currentItem # NoItem
        /\ BeginOperation(r, PendingResume(StartToken(r)))
        /\ state' = "Buffering"
        /\ ReturnIntent("PrepareBuffer", StartToken(r), currentItem,
                        clock.position)
        /\ UNCHANGED <<clock, currentItem>>

DispatchSeek(r, pos) ==
  LET seekable == {"Loading", "Buffering", "Playing", "Paused"} IN
  /\ Fresh(r)
  /\ \/ state \notin seekable /\ Reject(r, "InvalidState")
     \/ /\ state \in seekable
        /\ currentItem = NoItem
        /\ Reject(r, "NoCurrentItem")
     \/ /\ state \in seekable
        /\ currentItem # NoItem
        /\ BeginOperation(r, PendingSeek(StartToken(r), pos, state))
        /\ state' = IF state = "Paused" THEN "Paused" ELSE "Buffering"
        /\ ReturnIntent("Seek", StartToken(r), NoItem, pos)
        /\ UNCHANGED <<clock, currentItem>>

DispatchStop(r) ==
  LET needsBoundary == state \notin {"Empty", "Stopped"}
      gen == IF needsBoundary THEN NextGeneration ELSE bufferGeneration
  IN
  /\ Fresh(r)
  /\ requests' = RecordApplied(requests, r)
  /\ ReturnIntent("Stop", TokenFor(requests, r, gen), NoItem, 0)
  /\ IF needsBoundary
     THEN Boundary("Stopped", StopBoundary(clock))
     ELSE Untouched

\* Cancelling the pending operation stops the session but, unlike Stop, leaves
\* its clock where it is.  The cancel is itself a recorded request.
DispatchCancel(r, target) ==
  LET outcome == CancellationOutcome(requests, target)
      targetIsPending ==
        /\ pending # NoPending
        /\ pending.token.req = target
  IN
  /\ Fresh(r)
  /\ \/ /\ r = target \/ outcome = "UnknownRequest"
        /\ Reject(r, "UnknownCancellationTarget")
     \/ /\ r # target
        /\ outcome # "UnknownRequest"
        /\ requests' = RecordApplied(Cancel(requests, target), r)
        /\ Return(outcome)
        /\ IF targetIsPending /\ outcome = "CancelledBeforeCommit"
           THEN Boundary("Stopped", clock)
           ELSE Untouched

\* Next, Previous, SetQueue, SetShuffle and SetRepeat belong to the pipeline.
DispatchQueueCommand(r) == Fresh(r) /\ Reject(r, "QueuePolicyNotReady")
-----------------------------------------------------------------------------
(* Worker events.  `pos' is the payload of SeekApplied and 0 in the others. *)

EventKinds ==
  {"SourceReady", "PrebufferReady", "SeekApplied", "SourceUnavailable",
   "Failed", "Ended"}

\* The session state a terminal event stands for.
TerminalEvents == {"SourceUnavailable", "Failed", "Ended"}
TerminalStates == {"Unavailable", "Failed", "Ended"}
TerminalState(kind) ==
  IF kind = "SourceUnavailable" THEN "Unavailable" ELSE kind

FromActive(kind, token) == kind \in TerminalEvents /\ activeToken = token

\* What an event that is no end of the active operation counts for.
EventVerdict(token) ==
  LET verdict == Classify(requests, token, bufferGeneration) IN
  IF verdict # "Accepted"       THEN verdict
  ELSE IF pending = NoPending   THEN "RequestNoLongerPending"
  ELSE IF pending.token # token THEN "RequestSuperseded"
  ELSE "Accepted"

Expected(kind, token) ==
  ~FromActive(kind, token) /\ EventVerdict(token) = "Accepted"

\* Mutant: the version is not bumped.
MutantActiveTerminalEvent(kind, token) ==
  /\ FromActive(kind, token)
  /\ activeToken' = NoToken
  /\ state' = TerminalState(kind)
  /\ Return("Accepted")
  /\ UNCHANGED <<currentItem, clock, stateVersion, bufferGeneration, pending,
                 requests, retired>>

ActiveTerminalEvent(kind, token) ==
  /\ FromActive(kind, token)
  /\ IF token.gen # bufferGeneration
     THEN /\ Return("BufferGenerationChanged")
          /\ Untouched
     ELSE /\ activeToken' = NoToken
          /\ state' = TerminalState(kind)
          /\ stateVersion' = stateVersion + 1
          /\ Return("Accepted")
          /\ UNCHANGED <<currentItem, clock, bufferGeneration, pending, retired>>
  /\ UNCHANGED requests

StaleEvent(kind, token) ==
  /\ ~FromActive(kind, token)
  /\ EventVerdict(token) # "Accepted"
  /\ Return(EventVerdict(token))
  /\ Untouched
  /\ UNCHANGED requests

UnexpectedEvent ==
  /\ Return("UnexpectedWorkerEvent")
  /\ Untouched
  /\ UNCHANGED requests

SourceReady(token) ==
  /\ Expected("SourceReady", token)
  /\ IF pending.kind # "Play"
     THEN UnexpectedEvent
     ELSE /\ state = "Buffering" => stateVersion < MaxVersion   \* bound
          /\ state' = "Buffering"
          /\ stateVersion' = stateVersion + 1
          /\ ReturnIntent("PrepareBuffer", token, currentItem, clock.position)
          /\ UNCHANGED <<currentItem, clock, bufferGeneration, pending,
                         activeToken, requests, retired>>

\* The clock boundary at which a prepared operation becomes audible.
ActivationClock(operation) ==
  CASE operation.kind = "Resume" \/ operation.resumes -> ResumeBoundary(clock)
    [] operation.kind = "Play" /\ ~operation.resumes  -> SourceTransition(clock, 0)
    [] operation.kind = "Seek"                        -> clock

PrebufferReady(token) ==
  /\ Expected("PrebufferReady", token)
  /\ IF pending.kind = "Seek" /\ ~pending.applied
     THEN UnexpectedEvent
     ELSE /\ clock' = ActivationClock(pending)
          /\ state' = IF pending.kind = "Seek" /\ pending.prior = "Paused"
                      THEN "Paused"
                      ELSE "Playing"
          /\ pending' = NoPending
          /\ requests' = MarkApplied(requests, token.req)
          /\ activeToken' = token
          /\ stateVersion' = stateVersion + 1
          /\ Return("Accepted")
          /\ UNCHANGED <<currentItem, bufferGeneration, retired>>

SeekApplied(token, pos) ==
  /\ Expected("SeekApplied", token)
  /\ \/ pending.kind # "Seek" /\ UnexpectedEvent
     \/ /\ pending.kind = "Seek"
        /\ pos # pending.position
        /\ Return("PayloadMismatch")
        /\ Untouched
        /\ UNCHANGED requests
     \/ /\ pending.kind = "Seek"
        /\ pos = pending.position
        /\ pending.applied => stateVersion < MaxVersion          \* bound
        /\ clock' = SeekTo(clock, pos)
        /\ pending' = [pending EXCEPT !.applied = TRUE]
        /\ state' = IF pending.prior = "Paused" THEN state ELSE "Buffering"
        /\ stateVersion' = stateVersion + 1
        /\ ReturnIntent("PrepareBuffer", token, currentItem, pos)
        /\ UNCHANGED <<currentItem, bufferGeneration, activeToken, requests,
                       retired>>

PendingTerminalEvent(kind, token) ==
  /\ kind \in TerminalEvents
  /\ Expected(kind, token)
  /\ pending' = NoPending
  /\ activeToken' = NoToken
  /\ state' = TerminalState(kind)
  /\ requests' = MarkApplied(requests, token.req)
  /\ stateVersion' = stateVersion + 1
  /\ Return("Accepted")
  /\ UNCHANGED <<currentItem, clock, bufferGeneration, retired>>

HandleWorkerEvent(kind, token, pos) ==
  \/ ActiveTerminalEvent(kind, token)
  \/ StaleEvent(kind, token)
  \/ kind = "SourceReady" /\ SourceReady(token)
  \/ kind = "PrebufferReady" /\ PrebufferReady(token)
  \/ kind = "SeekApplied" /\ SeekApplied(token, pos)
  \/ PendingTerminalEvent(kind, token)
-----------------------------------------------------------------------------
(* The output boundary. *)

RecordRenderedFrames(n) ==
  /\ state = "Playing"
  /\ clock.position + n <= MaxPosition                          \* bound
  /\ clock' = AdvanceRenderedFrames(clock, n)
  /\ UNCHANGED <<state, currentItem, bufferGeneration, pending, activeToken,
                 stateVersion, requests, update, issued, retired>>

Acknowledge ==
  /\ clock' = AcknowledgeDiscontinuity(clock)
  /\ UNCHANGED <<state, currentItem, bufferGeneration, pending, activeToken,
                 stateVersion, requests, update, issued, retired>>
-----------------------------------------------------------------------------
Dispatch(r) ==
  \/ DispatchDuplicate(r)
  \/ \E i \in Items \cup {NoItem} : DispatchPlay(r, i)
  \/ DispatchPause(r)
  \/ DispatchResume(r)
  \/ \E pos \in Positions : DispatchSeek(r, pos)
  \/ DispatchStop(r)
  \/ \E target \in Requests : DispatchCancel(r, target)
  \/ DispatchQueueCommand(r)

WorkerEvent ==
  \E token \in issued, kind \in EventKinds, pos \in Positions :
    /\ kind # "SeekApplied" => pos = 0
    /\ HandleWorkerEvent(kind, token, pos)

Next ==
  \/ \E r \in Requests : Dispatch(r)
  \/ WorkerEvent
  \/ \E n \in 1 .. MaxPosition : RecordRenderedFrames(n)
  \/ Acknowledge

Spec == Init /\ [][Next]_vars

\* A worker that answers: each phase of the pending operation is eventually
\* reported.  It may report anything else as well, as often as it likes.
OpensSource ==
  /\ pending # NoPending
  /\ pending.kind = "Play"
  /\ state = "Loading"
  /\ SourceReady(pending.token)

AppliesSeek ==
  /\ pending # NoPending
  /\ pending.kind = "Seek"
  /\ ~pending.applied
  /\ SeekApplied(pending.token, pending.position)

FillsBuffer ==
  /\ pending # NoPending
  /\ pending.kind = "Seek" => pending.applied
  /\ state # "Loading"
  /\ PrebufferReady(pending.token)

FairSpec ==
  /\ Spec
  /\ WF_vars(OpensSource)
  /\ WF_vars(AppliesSeek)
  /\ WF_vars(FillsBuffer)

\* Bound: callers number their requests in the order they are accepted.
NumberedInOrder == \A r \in Requests : requests.records[r].rev \in {0, r}
-----------------------------------------------------------------------------
(* Properties. *)

\* A pending operation can still be answered: the ledger, the generation and
\* the session state all agree that its token is the current one.  This is what
\* makes the debug_assert!(applied) of the event handlers hold.
PendingIsCurrent ==
  pending # NoPending =>
    /\ requests.records[pending.token.req] =
         [rev |-> pending.token.rev, st |-> "Active"]
    /\ pending.token.rev = requests.latest
    /\ pending.token.gen = bufferGeneration
    /\ currentItem # NoItem
    /\ \/ state \in {"Loading", "Buffering"}
       \/ state = "Paused" /\ pending.kind = "Seek" /\ pending.prior = "Paused"

\* A session that tells its clients it is loading or buffering has a worker
\* operation that can end the wait; one that plays has an operation whose end
\* or failure it will accept, and never a second one pending beside it.
EveryStateHasAnOwner ==
  /\ state \in {"Loading", "Buffering"} => pending # NoPending
  /\ state = "Playing" => activeToken # NoToken
  /\ activeToken # NoToken =>
       /\ pending = NoPending
       /\ activeToken.gen = bufferGeneration
       /\ state \in {"Playing", "Paused"}

\* A step that changes the session never handles a worker result from before the
\* session last moved on -- by a newer operation, a pause, a stop or a cancel --
\* however late or often that result comes.
RetiredTokensAreInert ==
  [][UNCHANGED <<core, stateVersion, requests>>
     \/ \A token \in retired, kind \in EventKinds, pos \in Positions :
          ~HandleWorkerEvent(kind, token, pos)]_vars

\* What became of a request is final: a cancelled operation is not applied by a
\* late worker, an applied one is not cancelled, and no id is used twice.
ResolutionIsFinal ==
  [][\A r \in Requests :
       requests.records[r].st \in Resolved =>
         requests'.records[r] = requests.records[r]]_vars

\* Within an epoch media time only runs forward from one base; going back takes
\* a new epoch that names a seek, a stop or a source transition; and a paused
\* session moves its position only to the target of the pending seek.
TimelineIsContinuous ==
  [][/\ clock'.epoch = clock.epoch =>
          clock'.base = clock.base /\ clock'.position >= clock.position
     /\ clock'.position < clock.position =>
          clock'.reason \in {"Seek", "Stop", "SourceTransition"}
     /\ state = "Paused" /\ state' = "Paused"
          /\ clock'.position # clock.position =>
            pending # NoPending /\ clock'.position = pending.position]_vars

\* A client that compares state versions misses no change of the snapshot
\* fields outside the clock.
VersionTellsChanges ==
  [][<<state, currentItem, bufferGeneration, pending>>' #
       <<state, currentItem, bufferGeneration, pending>>
     => stateVersion' > stateVersion]_vars

\* A client that polls follows the session: no change passes under the version
\* it knows, and no jump of the position under the epoch it knows.
ChangesAreTold == VersionTellsChanges /\ TimelineIsContinuous

\* With a worker that answers, no wait lasts.
WaitingEnds ==
  state \in {"Loading", "Buffering"} ~> state \notin {"Loading", "Buffering"}

\* The session keeps the promise of CommandLedger: the ledger's status is the
\* record of the request, its owner the pending operation.
StatusOf(st) ==
  IF st = "Unseen"        THEN "unseen"
  ELSE IF st = "Active"   THEN "pending"
  ELSE IF st = "Applied"  THEN "applied"
  ELSE IF st = "Rejected" THEN "rejected"
  ELSE "cancelled"

LedgerStatus == [r \in Requests |-> StatusOf(requests.records[r].st)]

LedgerOwner == IF pending = NoPending THEN NoToken ELSE pending.token.req

Ledger == INSTANCE CommandLedger
            WITH Nobody <- NoToken, status <- LedgerStatus, owner <- LedgerOwner

ImplementsLedger == Ledger!Spec
=============================================================================
