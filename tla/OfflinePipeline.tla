-------------------------- MODULE OfflinePipeline --------------------------
(***************************************************************************)
(* The offline playback pipeline of aurorix-playback (pipeline.rs): one    *)
(* object that owns a session, a queue, a decoder and a PCM buffer, takes  *)
(* commands and render calls, and does the session's worker intents itself.*)
(*                                                                         *)
(* A public call runs to its end before the next one (&mut self), but it   *)
(* is long: a command is dispatched to the session, the intent it returns  *)
(* is executed, the event of that is handled by the session, whose intent  *)
(* is executed in turn, and a queue transition dispatches a second command *)
(* after all that.  `calling' says where in its call the pipeline is; the  *)
(* session's part of every step is an action of PlaybackSession itself.    *)
(*                                                                         *)
(* Resolver, decoder and sink are ports: they may do what their traits     *)
(* allow.  A decoded frame is its track and its place in it.               *)
(***************************************************************************)
EXTENDS PlaybackQueue

CONSTANTS
  Requests,        \* 1 .. n; callers and the pipeline draw ids from them
  Items, NoItem, NoPending, NoToken, NoIntent, MaxPosition, MaxVersion,
  NoDecoder,
  NoPlay,          \* no Play waits for the call in progress
  Commands,        \* the kinds of commands callers send
  TrackLength,     \* frames of every track
  BlockFrames,     \* decoder scratch
  PrebufferFrames,
  MaxBufferFrames,
  OutputFrames,    \* frames one render call asks for
  WorkersFail      \* sources and decoders may fail

ASSUME OfflinePipelineAssumption ==
  /\ Requests = 1 .. Cardinality(Requests) /\ IsFiniteSet(Requests)
  /\ TrackLength \in Nat
  /\ {BlockFrames, PrebufferFrames, MaxBufferFrames, OutputFrames}
       \subseteq Nat \ {0}
  /\ BlockFrames <= MaxBufferFrames /\ PrebufferFrames <= MaxBufferFrames
  /\ WorkersFail \in BOOLEAN

VARIABLES
  \* the session
  state, currentItem, clock, stateVersion, bufferGeneration, pending,
  activeToken, requests, update, issued, retired,
  \* the rest of the pipeline
  queue,
  decoder,          \* its track and the frame it decodes next
  buffer,           \* PcmBuffer: generation and frames
  eof,              \* decoder_eof
  nextInternal,     \* internal_request_id; 0 when exhausted
  seen,             \* seen_request_ids
  activeWorker,     \* active_worker_token
  \* the call in progress
  calling,          \* where it is; "idle" between calls
  thenPlay,         \* the Play a queue transition still has to dispatch
  told              \* the transition the caller is told of

sessionVars == <<state, currentItem, clock, stateVersion, bufferGeneration,
                 pending, activeToken, requests, update, issued, retired>>
sound == <<decoder, buffer, eof>>
ids   == <<nextInternal, seen>>
call  == <<calling, thenPlay, told>>
vars  == <<sessionVars, queue, sound, ids, activeWorker, call>>

S == INSTANCE PlaybackSession

\* A decoded frame.  A decoder is its track and the frame it decodes next.
Frames   == [item : Items, at : 0 .. TrackLength]
Decoders == [item : Items, at : 0 .. TrackLength]

\* What stands for nothing is nothing else (the assumption of PlaybackSession,
\* and the same for the intents of the session and the Play that waits).
ASSUME NothingAssumption ==
  /\ NoItem \notin Items
  /\ NoToken \notin S!Tokens \cup Requests
  /\ NoPending \notin S!PendingOperations
  /\ NoIntent \notin S!Intents
  /\ NoPlay \notin [req : Requests, item : Items]
  /\ NoDecoder \notin Decoders
  /\ MaxPosition \in Nat /\ MaxVersion \in Nat

Init ==
  /\ S!Init
  /\ queue = NewQueue
  /\ decoder = NoDecoder
  /\ buffer = [generation |-> 0, frames |-> <<>>]
  /\ eof = FALSE
  /\ nextInternal = Cardinality(Requests)
  /\ seen = {}
  /\ activeWorker = NoToken
  /\ calling = "idle"
  /\ thenPlay = NoPlay
  /\ told = NoTrack("None")
-----------------------------------------------------------------------------
(* The PCM buffer, the request ids, and the two ways into the session. *)

MutantResetBuffer(generation) ==                 \* mutant: keeps the frames
  [generation |-> generation, frames |-> buffer.frames]
ResetBuffer(generation) == [generation |-> generation, frames |-> <<>>]

\* No decoder and nothing prepared; the generation stays.
Silence ==
  /\ decoder' = NoDecoder
  /\ buffer' = ResetBuffer(buffer.generation)
  /\ eof' = FALSE

\* Internal ids count down past the ids in use; 0 when there is none left.
InternalId(used) == Max({0} \cup ((1 .. nextInternal) \ used))

\* The caller of TakeInternalId gives up when there is no id.
Exhausted(used) == InternalId(used) = 0

TakeInternalId(used) ==
  /\ nextInternal' = IF Exhausted(used) THEN 0 ELSE InternalId(used) - 1
  /\ seen' = IF Exhausted(used) THEN used ELSE used \cup {InternalId(used)}

\* A command goes to the session; the intent it answers with is executed next.
Dispatched(r, command) ==
  /\ IF S!Fresh(r) THEN command ELSE S!DispatchDuplicate(r)
  /\ calling' = "intent"

\* Mutant: the token of the newest event is kept only if there was none.
MutantApplyWorkerEvent(kind, token, pos) ==
  /\ S!HandleWorkerEvent(kind, token, pos)
  /\ activeWorker' = IF activeWorker = NoToken THEN token ELSE activeWorker

\* The pipeline remembers the token of every event it sends, stale ones too.
ApplyWorkerEvent(kind, token, pos) ==
  /\ S!HandleWorkerEvent(kind, token, pos)
  /\ activeWorker' = IF state' \in S!TerminalStates THEN NoToken ELSE token

Tell(transition) == told' = transition
NoTransition == NoTrack("None")
Selects(result) == result.transition.kind \in {"Selected", "RestartCurrent"}
TrackOf(result) == result.queue.items[result.transition.index]
-----------------------------------------------------------------------------
(* Commands.  Each takes a request id no command has used yet. *)

DuplicateCommand(r) ==
  /\ calling = "idle"
  /\ r \in seen
  /\ Tell(NoTransition)
  /\ UNCHANGED <<sessionVars, queue, sound, ids, activeWorker, calling, thenPlay>>

Command(r, kind) ==
  /\ calling = "idle"
  /\ kind \in Commands
  /\ r \notin seen

\* A command on the queue alone.  One that fails may have changed it, too.
OnQueue(r, q) ==
  /\ queue' = q
  /\ seen' = seen \cup {r}
  /\ Tell(NoTransition)
  /\ UNCHANGED <<sessionVars, sound, nextInternal, activeWorker, calling,
                 thenPlay>>

SetQueueCommand(r, items, current) ==
  Command(r, "SetQueue") /\ OnQueue(r, ReplaceItems(queue, items, current).queue)

SetShuffleCommand(r, on, seed) ==
  Command(r, "SetShuffle") /\ OnQueue(r, SetShuffle(queue, on, seed).queue)

SetRepeatCommand(r, mode) ==
  Command(r, "SetRepeat") /\ OnQueue(r, SetRepeat(queue, mode))

SessionCommand(r) ==
  /\ \/ Command(r, "Pause")  /\ Dispatched(r, S!DispatchPause(r))
     \/ Command(r, "Resume") /\ Dispatched(r, S!DispatchResume(r))
     \/ Command(r, "Stop")   /\ Dispatched(r, S!DispatchStop(r))
     \/ /\ Command(r, "Seek")
        /\ \E pos \in S!Positions : Dispatched(r, S!DispatchSeek(r, pos))
     \/ /\ Command(r, "Cancel")
        /\ \E target \in Requests : Dispatched(r, S!DispatchCancel(r, target))
  /\ seen' = seen \cup {r}
  /\ Tell(NoTransition)
  /\ UNCHANGED <<queue, sound, nextInternal, activeWorker, thenPlay>>

\* Play makes its track current in the queue before the session is asked.
\* Without a track it takes the current one, or the first.
SelectForPlay(requested) ==
  IF requested # NoItem
  THEN Select(queue, SelectInSeq(queue.items, LAMBDA i : i = requested)).queue
  ELSE IF queue.current \in DOMAIN queue.items THEN queue ELSE First(queue).queue

PlayCommand(r, requested) ==
  LET chosen == SelectForPlay(requested) IN
  /\ Command(r, "Play")
  /\ seen' = seen \cup {r}
  /\ Tell(NoTransition)
  /\ IF requested # NoItem /\ requested \notin Range(queue.items)
     THEN UNCHANGED <<sessionVars, queue, calling>>
     ELSE /\ queue' = chosen
          /\ IF chosen.current \in DOMAIN chosen.items
             THEN Dispatched(r, S!DispatchPlay(r, chosen.items[chosen.current]))
             ELSE UNCHANGED <<sessionVars, calling>>
  /\ UNCHANGED <<sound, nextInternal, activeWorker, thenPlay>>

\* Where stop_for_transition finds nothing to stop in the session.
AtRest == {"Empty", "Stopped"} \cup S!TerminalStates

\* Mutant: what plays now is not stopped first.
MutantSelectTransition(r, result) ==
  /\ thenPlay' = [req |-> r, item |-> TrackOf(result)]
  /\ calling' = "then"
  /\ seen' = seen \cup {r}
  /\ Tell(result.transition)
  /\ UNCHANGED <<sessionVars, sound, nextInternal, activeWorker>>

\* The session is stopped under an internal id, and then plays the new track.
SelectTransition(r, result) ==
  LET used == seen \cup {r}
      id   == InternalId(used)
      play == [req |-> r, item |-> TrackOf(result)]
  IN
  \/ /\ state \in AtRest
     /\ Silence
     /\ calling' = "then"
     /\ thenPlay' = play
     /\ seen' = used
     /\ Tell(result.transition)
     /\ UNCHANGED <<sessionVars, nextInternal, activeWorker>>
  \/ /\ state \notin AtRest
     /\ TakeInternalId(used)
     /\ IF Exhausted(used)
        THEN /\ Tell(NoTransition)
             /\ UNCHANGED <<sessionVars, calling, thenPlay>>
        ELSE /\ Dispatched(id, S!DispatchStop(id))
             /\ thenPlay' = play
             /\ Tell(result.transition)
     /\ UNCHANGED <<sound, activeWorker>>

\* At the end of the queue the last worker token is reported as ended, whatever
\* state the session is in, and the decoder goes.
EndTransition(r) ==
  /\ IF activeWorker = NoToken
     THEN UNCHANGED <<sessionVars, activeWorker>>
     ELSE ApplyWorkerEvent("Ended", activeWorker, 0)
  /\ Silence
  /\ seen' = seen \cup {r}
  /\ UNCHANGED <<nextInternal, calling, thenPlay>>

Transitioned(r, result) ==
  /\ queue' = result.queue
  /\ \/ Selects(result) /\ SelectTransition(r, result)
     \/ /\ result.transition.kind = "Ended"
        /\ EndTransition(r)
        /\ Tell(result.transition)
     \/ /\ result.transition.kind = "Empty"
        /\ Tell(result.transition)
        /\ seen' = seen \cup {r}
        /\ UNCHANGED <<sessionVars, sound, nextInternal, activeWorker, calling,
                       thenPlay>>

NextCommand(r) ==
  Command(r, "Next") /\ Transitioned(r, AdvanceNext(queue, "ManualNext"))

PreviousCommand(r) ==
  Command(r, "Previous") /\ Transitioned(r, Previous(queue, clock.position))

\* The second half of a transition, after the Stop.
ThenPlay ==
  /\ calling = "then"
  /\ IF thenPlay = NoPlay
     THEN calling' = "idle" /\ UNCHANGED sessionVars
     ELSE Dispatched(thenPlay.req, S!DispatchPlay(thenPlay.req, thenPlay.item))
  /\ thenPlay' = NoPlay
  /\ UNCHANGED <<queue, sound, ids, activeWorker, told>>
-----------------------------------------------------------------------------
(* Worker intents. *)

Intent == update.intent

Executing(kind) ==
  /\ calling = "intent"
  /\ Intent # NoIntent
  /\ Intent.kind = kind

\* The rest of a call the intents leave alone.
Keeping == UNCHANGED <<queue, ids, thenPlay, told>>

NoIntentLeft ==
  /\ calling = "intent"
  /\ Intent = NoIntent
  /\ calling' = "then"
  /\ UNCHANGED <<sessionVars, sound, activeWorker>>
  /\ Keeping

ExecuteResolveSource ==
  /\ Executing("ResolveSource")
  /\ buffer' = ResetBuffer(Intent.token.gen)
  /\ eof' = FALSE
  /\ \/ /\ decoder' = [item |-> Intent.item, at |-> 0]
        /\ ApplyWorkerEvent("SourceReady", Intent.token, 0)
     \/ /\ WorkersFail
        /\ decoder' = NoDecoder
        /\ \E kind \in {"SourceUnavailable", "Failed"} :
             ApplyWorkerEvent(kind, Intent.token, 0)
  /\ UNCHANGED calling
  /\ Keeping

\* The position of the intent is not looked at: preparation goes on where the
\* decoder stands.
ExecutePrepareBuffer ==
  /\ Executing("PrepareBuffer")
  /\ buffer' = ResetBuffer(Intent.token.gen)
  /\ calling' = "fill"
  /\ UNCHANGED <<sessionVars, decoder, eof, activeWorker>>
  /\ Keeping

\* A decoder lands where it can, which need not be where it was asked to.
ExecuteSeek ==
  /\ Executing("Seek")
  /\ buffer' = ResetBuffer(Intent.token.gen)
  /\ eof' = FALSE
  /\ \/ /\ decoder # NoDecoder
        /\ \E pos \in S!Positions :
             /\ decoder' = [decoder EXCEPT !.at = Min({pos, TrackLength})]
             /\ ApplyWorkerEvent("SeekApplied", Intent.token, pos)
     \/ /\ decoder = NoDecoder \/ WorkersFail
        /\ decoder' = NoDecoder
        /\ ApplyWorkerEvent("Failed", Intent.token, 0)
  /\ UNCHANGED calling
  /\ Keeping

ExecutePause ==
  /\ Executing("Pause")
  /\ buffer' = ResetBuffer(Intent.token.gen)
  /\ calling' = "then"
  /\ UNCHANGED <<sessionVars, decoder, eof, activeWorker>>
  /\ Keeping

ExecuteStop ==
  /\ Executing("Stop")
  /\ decoder' = NoDecoder
  /\ buffer' = ResetBuffer(Intent.token.gen)
  /\ eof' = FALSE
  /\ activeWorker' = NoToken
  /\ calling' = "then"
  /\ UNCHANGED sessionVars
  /\ Keeping
-----------------------------------------------------------------------------
(* pump_worker: called by the host ("pump"), or to prepare a buffer ("fill"). *)

Pumping   == calling \in {"pump", "fill"}
Prepared  == Len(buffer.frames) >= PrebufferFrames \/ eof

PumpCall ==
  /\ calling = "idle"
  /\ decoder # NoDecoder
  /\ calling' = "pump"
  /\ UNCHANGED <<sessionVars, queue, sound, ids, activeWorker, thenPlay, told>>

Room == Min({BlockFrames, MaxBufferFrames - Len(buffer.frames),
             TrackLength - decoder.at})

MutantEndOfStream(eos) == eof             \* mutant: the end is not remembered
EndOfStream(eos) == eos

\* One decoder step: some frames, the last of them perhaps marked as the end,
\* which may also come alone.
Decode ==
  /\ Pumping
  /\ decoder # NoDecoder
  /\ ~Prepared
  /\ \E n \in 0 .. Room, eos \in BOOLEAN :
       /\ eos => decoder.at + n = TrackLength
       /\ n > 0 \/ eos
       /\ decoder' = [decoder EXCEPT !.at = @ + n]
       /\ buffer' = [buffer EXCEPT !.frames =
            @ \o [k \in 1 .. n |-> [item |-> decoder.item, at |-> decoder.at + k - 1]]]
       /\ eof' = EndOfStream(eos)
  /\ UNCHANGED <<sessionVars, activeWorker, calling>>
  /\ Keeping

\* A decoder that fails, writes too much or nothing is dropped; the session is
\* told only when it waits for a buffer.
DecodeFails ==
  /\ Pumping
  /\ WorkersFail
  /\ decoder # NoDecoder
  /\ ~Prepared
  /\ decoder' = NoDecoder
  /\ IF calling = "fill"
     THEN /\ ApplyWorkerEvent("Failed", Intent.token, 0)
          /\ calling' = "intent"
     ELSE /\ calling' = "idle"
          /\ UNCHANGED <<sessionVars, activeWorker>>
  /\ UNCHANGED <<buffer, eof>>
  /\ Keeping

\* Without a decoder a pump is neither ready nor failed.
PumpReturns ==
  /\ Pumping
  /\ decoder = NoDecoder \/ Prepared
  /\ IF calling = "fill" /\ decoder # NoDecoder
     THEN /\ ApplyWorkerEvent("PrebufferReady", Intent.token, 0)
          /\ calling' = "intent"
     ELSE /\ calling' = IF calling = "fill" THEN "then" ELSE "idle"
          /\ UNCHANGED <<sessionVars, activeWorker>>
  /\ UNCHANGED sound
  /\ Keeping
-----------------------------------------------------------------------------
(* render_prepared. *)

\* The frames the output takes, counted on the clock before the sink sees them.
Render ==
  LET n == IF state = "Playing" THEN Min({OutputFrames, Len(buffer.frames)})
                                ELSE 0
  IN
  /\ calling = "idle"
  /\ IF n = 0 THEN UNCHANGED sessionVars ELSE S!RecordRenderedFrames(n)
  /\ buffer' = [buffer EXCEPT !.frames = SubSeq(@, n + 1, Len(@))]
  /\ calling' = "sink"
  /\ UNCHANGED <<queue, decoder, eof, ids, activeWorker, thenPlay, told>>

\* A sink that fails ends the call: the discontinuity stays to be reported.
SinkFails ==
  /\ calling = "sink"
  /\ calling' = "idle"
  /\ UNCHANGED <<sessionVars, queue, sound, ids, activeWorker, thenPlay, told>>

SinkTakes ==
  /\ calling = "sink"
  /\ S!Acknowledge
  /\ calling' = IF eof /\ buffer.frames = <<>> /\ state = "Playing"
                THEN "finish" ELSE "idle"
  /\ UNCHANGED <<queue, sound, ids, activeWorker, thenPlay, told>>

\* The track has been heard to its end: the session is told, then the queue,
\* which may name the track to play next.
FinishCurrentItem ==
  LET result == AdvanceNext(queue, "Completed") IN
  /\ calling = "finish"
  /\ IF activeWorker = NoToken
     THEN /\ calling' = "idle"
          /\ UNCHANGED <<sessionVars, queue, sound, ids, activeWorker, thenPlay>>
     ELSE /\ ApplyWorkerEvent("Ended", activeWorker, 0)
          /\ queue' = result.queue
          /\ IF Selects(result)
             THEN /\ Silence
                  /\ TakeInternalId(seen)
                  /\ IF Exhausted(seen)
                     THEN calling' = "idle" /\ UNCHANGED thenPlay
                     ELSE /\ calling' = "then"
                          /\ thenPlay' = [req  |-> InternalId(seen),
                                          item |-> TrackOf(result)]
             ELSE /\ decoder' = NoDecoder
                  /\ eof' = FALSE
                  /\ calling' = "idle"
                  /\ UNCHANGED <<buffer, ids, thenPlay>>
  /\ Tell(NoTransition)
-----------------------------------------------------------------------------
Receive(r) ==
  \/ DuplicateCommand(r)
  \/ \E items \in SeqOf(Items, MaxItems), current \in 0 .. MaxItems :
       SetQueueCommand(r, items, current)
  \/ \E on \in BOOLEAN, seed \in Seeds : SetShuffleCommand(r, on, seed)
  \/ \E mode \in RepeatModes : SetRepeatCommand(r, mode)
  \/ \E item \in Items \cup {NoItem} : PlayCommand(r, item)
  \/ SessionCommand(r)
  \/ NextCommand(r)
  \/ PreviousCommand(r)

\* The steps inside a call.
Continue ==
  \/ NoIntentLeft
  \/ ExecuteResolveSource
  \/ ExecutePrepareBuffer
  \/ ExecuteSeek
  \/ ExecutePause
  \/ ExecuteStop
  \/ Decode
  \/ DecodeFails
  \/ PumpReturns
  \/ SinkTakes
  \/ SinkFails
  \/ FinishCurrentItem
  \/ ThenPlay

Next ==
  \/ \E r \in Requests : Receive(r)
  \/ PumpCall
  \/ Render
  \/ Continue

Spec == Init /\ [][Next]_vars

\* A host that keeps pumping and rendering, calls that return, and a sink that
\* does not refuse every block.
FairSpec ==
  /\ Spec
  /\ WF_vars(Continue)
  /\ SF_vars(PumpCall)
  /\ SF_vars(Render)
  /\ SF_vars(SinkTakes)
-----------------------------------------------------------------------------
(* Properties. *)

Idle == calling = "idle"

\* Nothing that was decoded before the operation that plays is ever heard: the
\* prepared frames are of the session's generation and of its track.
FramesBelongToOperation ==
  Idle /\ state = "Playing" =>
    /\ buffer.generation = bufferGeneration
    /\ \A k \in DOMAIN buffer.frames : buffer.frames[k].item = currentItem

\* The end of the track that plays will be accepted: the token the pipeline
\* reports it with is the one the session holds as active.
EndIsAccepted ==
  Idle /\ state = "Playing" => activeWorker = activeToken

\* When Next or Previous has returned a track, that track plays, or the session
\* says why it cannot; and the ids the pipeline makes up for the commands in
\* between are never ones the session has seen, whatever ids callers choose.
TransitionPlaysItsTrack ==
  /\ update.result # "DuplicateRequest"
  /\ Idle /\ told.kind \in {"Selected", "RestartCurrent"} /\ thenPlay = NoPlay =>
       /\ currentItem = queue.items[told.index]
       /\ state \in {"Playing", "Failed", "Unavailable"}

\* What is heard next is what the clock shows: the first prepared frame is the
\* one at the presentation position.
NextFrameIsAtTheClock ==
  Idle /\ state = "Playing" /\ buffer.frames # <<>> =>
    Head(buffer.frames).at = clock.position

\* pipeline.rs says of pump_worker that decoder failures are classified into the
\* session so that the state converges.
DecoderFailureConverges ==
  Idle /\ decoder = NoDecoder /\ ~eof /\ buffer.frames = <<>> =>
    state # "Playing"

\* A track that plays comes to its end, unless something else stops it.
TracksEnd == state = "Playing" ~> state # "Playing"
=============================================================================
