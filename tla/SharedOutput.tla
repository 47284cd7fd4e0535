------------------------------ MODULE SharedOutput ------------------------------
(***************************************************************************)
(* A WASAPI output (aurorix-audio-windows): it is opened in Exclusive mode *)
(* with a Shared retry or in Shared mode, started and stopped, and each    *)
(* event renders a period through the realtime consumer (RealtimePorts)    *)
(* into the endpoint.  The endpoint may be taken away at any time, which   *)
(* invalidates the client that was opened on it.  What an output may claim *)
(* of itself (output_report.rs) is derived from what was requested and     *)
(* what the adapter observed; an unknown observation never helps the claim.*)
(***************************************************************************)
EXTENDS RealtimePorts

CONSTANTS
  Formats,   \* output formats of an endpoint
  Period,    \* period_frames of the output
  MaxOpens   \* bound: opened outputs

ASSUME OutputAssumption == Period \in Nat \ {0} /\ MaxOpens \in Nat

VARIABLES
  present,   \* the selected endpoint is active
  opening,   \* the open in progress
  output,    \* SharedOutput
  opens,     \* opened outputs so far
  delivered  \* history: of this timeline, frames the endpoint got and failed
             \* writes; frames lost to a removal

outputVars == <<present, opening, output, opens, delivered>>
deviceVars == <<portVars, outputVars>>

None == "None"
Observed == {"Yes", "No", "Unknown"}

\* OutputRequest: the source, and the intent.
OutputRequests ==
  [codec : {"Known", "Unknown"}, source : Formats, requested : Formats \cup {None},
   normalRate : BOOLEAN, unity : BOOLEAN]

\* requested_output_format, or the format of the source.
RequestedFormat(request) ==
  IF request.requested = None THEN request.source ELSE request.requested

\* observation_for of the Shared mode, and output_observation of the Exclusive:
\* the mixer's processing is not proven absent by a Shared endpoint.
Observation(mode, request, negotiated, latency) ==
  [format |-> negotiated, latency |-> latency,
   changed |-> IF negotiated = request.source THEN "No" ELSE "Yes",
   dsp |-> IF mode = "Exclusive" THEN "No" ELSE "Unknown"]

\* derive_bit_perfect_reason: the first obstacle, in the order of the code.
\* Conversion, resampling and channel mapping are one fact here.
BitPerfectReason(request, observation) ==
  LET obstacles ==
        << <<"MissingObservedLatency", ~observation.latency>>,
           <<"UnknownSourceCodec", request.codec = "Unknown">>,
           <<"FormatChanged", observation.format # request.source>>,
           <<"PlaybackRateChanged", ~request.normalRate>>,
           <<"VolumeProcessing", ~request.unity>>,
           <<"Conversion", observation.changed # "No">>,
           <<"DspEnabled", observation.dsp = "Yes">>,
           <<"MissingDspEvidence", observation.dsp = "Unknown">>,
           <<"Eligible", TRUE>> >>
      first == CHOOSE i \in DOMAIN obstacles :
                 obstacles[i][2] /\ \A j \in 1 .. i - 1 : ~obstacles[j][2]
  IN obstacles[first][1]
-----------------------------------------------------------------------------
Policies == {"Disabled", "DefaultDevice"}
NoOpening == [asked |-> None, mode |-> None, at |-> "Idle", policy |-> "Disabled",
              request |-> None, format |-> None]
NoOutput == [mode |-> None, eligible |-> FALSE, lifecycle |-> "Dropped",
             removed |-> FALSE, frames |-> 0]

Delivered(written, failed, removed) ==
  [written |-> written, failed |-> failed, removed |-> removed]

DeviceInit ==
  /\ PortInit
  /\ present \in BOOLEAN
  /\ opening = NoOpening
  /\ output = NoOutput
  /\ opens = 0
  /\ delivered = Delivered(0, 0, 0)

(***************************************************************************)
(* Opening: open_shared, open_exclusive and the factory behind it.  An     *)
(* invalid configuration carries no fallback, every other failure does     *)
(* when the policy permits it.                                             *)
(***************************************************************************)
Opens(next) ==
  /\ opening' = next
  /\ UNCHANGED <<portVars, present, output, opens, delivered>>

Open(mode, policy, request) ==
  /\ opening = NoOpening /\ output = NoOutput /\ opens < MaxOpens
  /\ Opens([NoOpening EXCEPT !.asked = mode, !.mode = mode, !.at = "Select",
                             !.policy = policy, !.request = request])

\* ExclusiveOutputError::fallback: a failure names the retry that could help.
NamesFallback(failure) == failure # "InvalidConfiguration"

\* open_shared_after_exclusive_failure and open_shared_for_exclusive_error.
Retries(failure) ==
  /\ opening.mode = "Exclusive" /\ opening.policy = "DefaultDevice"
  /\ NamesFallback(failure)

FailOpening(failure) ==
  Opens(IF Retries(failure)
        THEN [opening EXCEPT !.mode = "Shared", !.at = "Select"]
        ELSE NoOpening)

\* The enumerator, the selected endpoint and its state.
SelectEndpoint ==
  /\ opening.at = "Select"
  /\ \/ \E failure \in {"Unavailable", "Backend", "InvalidConfiguration"} :
          FailOpening(failure)
     \/ /\ present
        /\ Opens([opening EXCEPT !.at = IF opening.mode = "Exclusive"
                                        THEN "Negotiate" ELSE "Open"])

\* exclusive_format_support and negotiate_exclusive_format; a closest format
\* comes from abstract backends only.
NegotiateExclusive ==
  /\ opening.at = "Negotiate"
  /\ \/ \E failure \in {"FormatNegotiation", "Backend", "InvalidConfiguration"} :
          FailOpening(failure)
     \/ \E format \in Formats : Opens([opening EXCEPT !.at = "Open", !.format = format])

\* from_backend: an output that is prepared, and what its report may claim.
Prepared(negotiated, latency) ==
  /\ output' = [NoOutput EXCEPT
       !.mode = opening.mode, !.lifecycle = "Prepared",
       !.eligible = BitPerfectReason(opening.request,
                      Observation(opening.mode, opening.request,
                                  negotiated, latency)) = "Eligible"]
  /\ opening' = NoOpening
  /\ opens' = opens + 1
  /\ UNCHANGED <<portVars, present, delivered>>

\* A Shared endpoint takes the requested format, its closest or its mix format.
OpenShared ==
  /\ opening.at = "Open" /\ opening.mode = "Shared"
  /\ \/ \E failure \in {"FormatNegotiation", "Backend", "InvalidConfiguration"} :
          FailOpening(failure)
     \/ /\ present
        /\ \E negotiated \in Formats, latency \in BOOLEAN : Prepared(negotiated, latency)

\* An Exclusive one is opened in the format that was negotiated.
OpenExclusive ==
  /\ opening.at = "Open" /\ opening.mode = "Exclusive"
  /\ \/ \E failure \in {"Backend", "InvalidConfiguration"} : FailOpening(failure)
     \/ present /\ \E latency \in BOOLEAN : Prepared(opening.format, latency)

(***************************************************************************)
(* The prepared output.  While render_event runs nothing else is called.   *)
(***************************************************************************)
Free == output # NoOutput /\ output.frames = 0

Becomes(lifecycle) ==
  /\ output' = [output EXCEPT !.lifecycle = lifecycle]
  /\ UNCHANGED <<portVars, present, opening, opens, delivered>>

\* A client of an endpoint that was taken away fails every call; any call may
\* fail for another reason, and leaves the output as it is.
Start == Free /\ output.lifecycle # "Unavailable" /\ ~output.removed /\ Becomes("Running")

Stop == Free /\ output.lifecycle # "Stopped" /\ Becomes("Stopped")

\* wait_for_event or the padding of render_event meets the removal.
MeetRemoval ==
  /\ Free /\ output.lifecycle # "Unavailable" /\ output.removed
  /\ Becomes("Unavailable")

\* A mutant fills whatever room the endpoint has.
MutantRenderEvent ==
  /\ Free /\ output.lifecycle = "Running" /\ ~output.removed
  /\ \E available \in 1 .. Period + 1 : \E copied \in 0 .. available :
       /\ Render(available, copied)
       /\ output' = [output EXCEPT !.frames = available]
  /\ UNCHANGED <<present, opening, opens, delivered>>

\* render_event, up to the renderer: at most a period, less what still waits
\* in the endpoint's buffer. Without room nothing is rendered.
RenderEvent ==
  /\ Free /\ output.lifecycle = "Running" /\ ~output.removed
  /\ \E available \in 1 .. Period : \E copied \in 0 .. available :
       /\ Render(available, copied)
       /\ output' = [output EXCEPT !.frames = available]
  /\ UNCHANGED <<present, opening, opens, delivered>>

\* map_backend_error of a failed write: the frames are gone, the clock has
\* counted them.
FailWrite ==
  /\ delivered' = Delivered(delivered.written, delivered.failed + 1,
                            delivered.removed + IF output.removed THEN output.frames ELSE 0)
  /\ output' = [output EXCEPT !.frames = 0,
                  !.lifecycle = IF output.removed THEN "Unavailable" ELSE @]

\* render_event, after the renderer has returned.
WriteFrames ==
  /\ output.frames > 0 /\ callback.at = "Idle"
  /\ \/ FailWrite
     \/ /\ ~output.removed
        /\ delivered' = Delivered(delivered.written + output.frames,
                                  delivered.failed, delivered.removed)
        /\ output' = [output EXCEPT !.frames = 0]
  /\ UNCHANGED <<portVars, present, opening, opens>>

\* Drop stops the client, whatever comes of it.
DropOutput ==
  /\ Free
  /\ output' = NoOutput
  /\ UNCHANGED <<portVars, present, opening, opens, delivered>>

\* A new timeline, between two events.
NewTimeline ==
  /\ output.frames = 0
  /\ ResetTimeline
  /\ delivered' = Delivered(0, 0, delivered.removed)
  /\ UNCHANGED <<present, opening, output, opens>>

\* The endpoint is taken away, or comes back for the next open.
EndpointChanges ==
  /\ present \/ (output = NoOutput /\ opens < MaxOpens)
  /\ present' = ~present
  /\ output' = [output EXCEPT !.removed = output # NoOutput]
  /\ UNCHANGED <<portVars, opening, opens, delivered>>

DeviceNext ==
  \/ \E mode \in {"Shared", "Exclusive"}, policy \in Policies,
        request \in OutputRequests : Open(mode, policy, request)
  \/ SelectEndpoint \/ NegotiateExclusive \/ OpenShared \/ OpenExclusive
  \/ Start \/ Stop \/ MeetRemoval \/ RenderEvent \/ WriteFrames \/ DropOutput
  \/ NewTimeline \/ EndpointChanges
  \/ PortStep /\ UNCHANGED outputVars

DeviceSpec == DeviceInit /\ [][DeviceNext]_deviceVars

-----------------------------------------------------------------------------

\* A report begins to claim that it is bit-perfect only when an endpoint was
\* opened in Exclusive mode, in the very format of a source that is known, at its
\* rate and untouched: no fallback, closest or requested other format, and
\* nothing that is merely unknown, gets the claim (lib.rs:1170, output_report.rs:598).
EligibleIsExact ==
  [][~output.eligible /\ output'.eligible =>
       /\ opening.mode = "Exclusive" /\ opening.format = opening.request.source
       /\ opening.request.codec # "Unknown"
       /\ opening.request.normalRate /\ opening.request.unity]_deviceVars

\* The clock covers what the endpoint got: it is never behind, it is ahead by
\* at most a period for each failed write of its timeline, and a removal costs
\* at most one period (lib.rs:1065).
ClockCoversTheEndpoint ==
  LET rendered == timeline.rendered - output.frames IN
    /\ delivered.written <= rendered
    /\ rendered <= delivered.written + Period * delivered.failed
    /\ delivered.removed <= Period * opens
================================================================================
