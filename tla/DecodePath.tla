------------------------------- MODULE DecodePath -------------------------------
(***************************************************************************)
(* A decoder worker (decoder.rs) with its seek coordinator (seek.rs), its  *)
(* local file (source.rs) and one codec (decoders/).  A call that reads    *)
(* the file or decodes takes several steps, because the file's             *)
(* cancellation token may be set by any thread in between.  Outputs wait   *)
(* to be taken in order by a consumer that asks accepts_output of each.    *)
(***************************************************************************)
EXTENDS Codecs, Sequences

CONSTANTS
  Rooms,          \* frames the caller's slices have room for
  EmptySlices,    \* whether a caller passes a slice without room to Opus
  MaxGeneration,  \* bound: generations of the seek coordinator
  MaxOutputs      \* bound: outputs not yet taken

VARIABLES
  state,       \* DecoderWorker.state
  generation,  \* SeekCoordinator.generations.current
  source,      \* LocalFileSource: a handle is held, closed, cursor at the start
  token,       \* CancellationToken.cancelled
  codec,       \* the decoder
  call,        \* the call in progress and how far it is
  outputs,     \* WorkerOutputs the caller holds
  accepted,    \* history: the last output accepted
  origin       \* history: the frame the current generation has to begin with

decodeVars == <<state, generation, source, token, codec, call, outputs, accepted, origin>>

ASSUME RoomsAssumption == Rooms \subseteq Nat

Generations == 0 .. MaxGeneration
States == {"Ready", "Running", "Paused", "Ended", "Failed", "Cancelled", "Closed"}
Nowhere == -1
NoCall == [op |-> "None", at |-> "Idle", room |-> 0, from |-> 0, to |-> 0,
           target |-> 0, resume |-> "Ready"]

DecodeInit ==
  /\ state = "Ready"
  /\ generation = 0
  /\ source = [held |-> TRUE, closed |-> FALSE, atStart |-> TRUE]
  /\ token = FALSE
  /\ codec \in {NewCodec(kind) : kind \in Kinds}
  /\ call = NoCall
  /\ outputs = <<>>
  /\ accepted = [generation |-> 0, from |-> 0, to |-> 0]
  /\ origin = 0

Idle == call = NoCall

(***************************************************************************)
(* start, pause and resume.                                                *)
(***************************************************************************)
MoveTo(from, to) ==
  /\ Idle /\ state \in from
  /\ state' = to
  /\ UNCHANGED <<generation, source, token, codec, call, outputs, accepted, origin>>

StartWorker == MoveTo({"Ready", "Paused"}, "Running")
Pause == MoveTo({"Running"}, "Paused")
Resume == MoveTo({"Paused"}, "Running")

(***************************************************************************)
(* The file.  A read or a reopen that meets the token fails; the handle is *)
(* dropped unless the token was set after retire_if_cancelled looked.      *)
(***************************************************************************)
RetireSource ==
  \/ source' = [source EXCEPT !.held = FALSE, !.closed = TRUE]
  \/ UNCHANGED source

\* classify_failure, and SeekCoordinator::cancel when a seek failed.
FailTo(failure) ==
  /\ state' = failure
  /\ call' = NoCall
  /\ UNCHANGED <<generation, token, codec, outputs, accepted, origin>>

\* read_source and the probe, read_headers: the whole file is materialized,
\* from wherever the cursor is; from the end there is nothing to read.
ReadSource ==
  /\ call.at = "Open"
  /\ \/ token /\ FailTo("Cancelled") /\ RetireSource
     \/ /\ ~token
        /\ source' = [source EXCEPT !.atStart = FALSE]
        /\ \/ FailTo("Failed")
           \/ /\ source.held /\ source.atStart
              /\ codec' = Opened(codec)
              /\ call' = [call EXCEPT !.at = call.op]
              /\ UNCHANGED <<state, generation, token, outputs, accepted, origin>>

\* LocalFileSource::reopen and Decoder::reopen.
ReopenSource ==
  /\ call.at = "Reopen"
  /\ \/ token /\ FailTo("Cancelled") /\ RetireSource
     \/ ~token /\ FailTo("Failed") /\ UNCHANGED source
     \/ /\ ~token /\ source.held
        /\ source' = [source EXCEPT !.atStart = TRUE]
        /\ codec' = Reopened(codec)
        /\ call' = [call EXCEPT !.at = "Open"]
        /\ UNCHANGED <<state, generation, token, outputs, accepted, origin>>

(***************************************************************************)
(* decode_step.                                                            *)
(***************************************************************************)
Returned(c, from, to, ended) ==
  /\ outputs' = Append(outputs, [generation |-> generation, from |-> from,
                                 to |-> to, ended |-> ended])
  /\ state' = IF ended THEN "Ended" ELSE state
  /\ codec' = c
  /\ call' = NoCall
  /\ UNCHANGED <<generation, source, token, accepted, origin>>

\* A slice without room is answered without opening the file.
DecodeStep(room) ==
  /\ Idle /\ state = "Running" /\ Len(outputs) < MaxOutputs
  /\ (room = 0 /\ codec.kind = "Opus") => EmptySlices
  /\ \/ /\ token
        /\ state' = "Cancelled"
        /\ UNCHANGED <<generation, source, token, codec, call, outputs, accepted, origin>>
     \/ /\ ~token /\ room = 0
        /\ Returned(codec, Position(codec), Position(codec), EndOfStream(codec, 0))
     \/ /\ ~token /\ room > 0
        /\ call' = [NoCall EXCEPT !.op = "Decode", !.room = room,
                                  !.at = IF codec.open THEN "Decode" ELSE "Open"]
        /\ UNCHANGED <<state, generation, source, token, codec, outputs, accepted, origin>>

Written == call.to - call.from

\* copy_pending into the rest of the slice.
CopyFrames ==
  /\ call.at = "Decode" /\ Remaining(codec) > 0 /\ Written < call.room
  /\ codec' = CopyPending(codec, call.room - Written)
  /\ LET copied == Lower(Remaining(codec), call.room - Written) IN
       call' = IF Written = 0
               THEN [call EXCEPT !.from = codec.pending.from,
                                 !.to = codec.pending.from + copied]
               ELSE [call EXCEPT !.to = @ + copied]
  /\ UNCHANGED <<state, generation, source, token, outputs, accepted, origin>>

\* fill_pending, a packet at a time; the packet may be malformed.
FillPending ==
  /\ call.at = "Decode" /\ Remaining(codec) = 0 /\ ~codec.eof /\ Written < call.room
  /\ \/ FailTo("Failed") /\ UNCHANGED source
     \/ /\ codec' = NextPacket(codec)
        /\ UNCHANGED <<state, generation, source, token, call, outputs, accepted, origin>>

FinishDecode ==
  /\ call.at = "Decode"
  /\ Written = call.room \/ (codec.eof /\ Remaining(codec) = 0)
  /\ Returned(codec,
              IF Written = 0 THEN Position(codec) ELSE call.from,
              IF Written = 0 THEN Position(codec) ELSE call.to,
              EndOfStream(codec, call.room))

(***************************************************************************)
(* seek and reopen_and_seek.                                               *)
(***************************************************************************)

\* A mutant leaves an ended worker ended.
MutantAfterSeek == state

\* The state a committed seek returns to.
AfterSeek == IF state \in {"Running", "Paused"} THEN state ELSE "Ready"

\* SeekCoordinator::begin retires the generation before anything can fail.
Seek(target, reopen) ==
  /\ Idle /\ state \in {"Ready", "Running", "Paused", "Ended"}
  /\ generation < MaxGeneration
  /\ generation' = generation + 1
  /\ origin' = Nowhere
  /\ \/ /\ token
        /\ state' = "Cancelled"
        /\ UNCHANGED call
     \/ /\ ~token
        /\ call' = [NoCall EXCEPT !.op = "Seek", !.target = target, !.resume = AfterSeek,
                                  !.at = IF reopen THEN "Reopen"
                                         ELSE IF codec.open THEN "Seek" ELSE "Open"]
        /\ UNCHANGED state
  /\ UNCHANGED <<source, token, codec, outputs, accepted>>

\* Decoder::seek and SeekCoordinator::commit.
CommitSeek ==
  /\ call.at = "Seek"
  /\ \/ FailTo("Failed")
     \/ /\ codec' \in Seeks(codec, call.target)
        /\ state' = call.resume
        /\ origin' = call.target
        /\ call' = NoCall
        /\ UNCHANGED <<generation, token, outputs, accepted>>
  /\ UNCHANGED source

\* invalidate_generation, for a cause outside the worker.
InvalidateGeneration ==
  /\ Idle /\ generation < MaxGeneration
  /\ generation' = generation + 1
  /\ origin' = Position(codec)
  /\ UNCHANGED <<state, source, token, codec, call, outputs, accepted>>

(***************************************************************************)
(* cancel, close, and the token in another thread's hands.                 *)
(***************************************************************************)
Cancel ==
  /\ Idle /\ state # "Closed" /\ generation < MaxGeneration
  /\ codec' = Cancelled(codec)
  /\ token' = TRUE
  /\ source' = [source EXCEPT !.held = FALSE, !.closed = TRUE]
  /\ state' = "Cancelled"
  /\ generation' = generation + 1
  /\ UNCHANGED <<call, outputs, accepted, origin>>

Close ==
  /\ Idle /\ state # "Closed"
  /\ codec' = Closed(codec)
  /\ source' = [source EXCEPT !.held = FALSE, !.closed = TRUE]
  /\ state' = "Closed"
  /\ UNCHANGED <<generation, token, call, outputs, accepted, origin>>

CancelToken ==
  /\ ~token
  /\ token' = TRUE
  /\ UNCHANGED <<state, generation, source, codec, call, outputs, accepted, origin>>

\* A mutant trusts any output of a worker that still runs.
MutantAcceptsOutput(o) == o.generation = generation \/ state = "Running"

AcceptsOutput(o) == o.generation = generation

\* The consumer takes the oldest output, and drops it if it is stale.
TakeOutput ==
  /\ Idle /\ outputs # <<>>
  /\ outputs' = Tail(outputs)
  /\ accepted' = IF AcceptsOutput(Head(outputs))
                 THEN [generation |-> generation, from |-> Head(outputs).from,
                       to |-> Head(outputs).to]
                 ELSE accepted
  /\ UNCHANGED <<state, generation, source, token, codec, call, origin>>

DecodeNext ==
  \/ StartWorker \/ Pause \/ Resume
  \/ \E room \in Rooms : DecodeStep(room)
  \/ ReadSource \/ ReopenSource \/ CopyFrames \/ FillPending \/ FinishDecode
  \/ \E target \in 0 .. Frames, reopen \in BOOLEAN : Seek(target, reopen)
  \/ CommitSeek \/ InvalidateGeneration
  \/ Cancel \/ Close \/ CancelToken \/ TakeOutput

DecodeSpec == DecodeInit /\ [][DecodeNext]_decodeVars

-----------------------------------------------------------------------------

\* What a consumer accepts of one generation is one run of frames: it begins
\* at the target of the seek that committed the generation (decoder.rs:451),
\* each output begins where the last one ended, and nothing is accepted of a
\* generation whose seek failed half-way.
AcceptedFramesFollow ==
  [][accepted' # accepted =>
       accepted'.from = IF accepted'.generation = accepted.generation
                        THEN accepted.to ELSE origin]_decodeVars

\* An output that says the stream has ended is the last one, and the worker is
\* Ended only when the codec has delivered every frame of the file
\* (decoder.rs:358; for Opus the last packet says eof while it is pending).
EndIsTheEnd ==
  /\ Idle /\ state = "Ended" => Position(codec) = Frames
  /\ \A i \in DOMAIN outputs : outputs[i].ended => outputs[i].to = Frames
=================================================================================
