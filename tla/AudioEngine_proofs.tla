--------------------------- MODULE AudioEngine_proofs ---------------------------
(***************************************************************************)
(* The two ends of the audio engine, for any stream, period, formats,      *)
(* readers and bounds.  Of the device: every underrun is told, recorded    *)
(* and recovered once, the clock covers what the endpoint got and is read  *)
(* whole, and an output claims no more than its mode allows.  Of the       *)
(* decoder: what a consumer accepts is one run of frames, and the end is   *)
(* the end.                                                                *)
(***************************************************************************)
EXTENDS AudioEngine, TLAPS

(***************************************************************************)
(* The recovery coordinator's record.                                      *)
(***************************************************************************)
RecoveryStates ==
  {"Ready", "Buffering", "Recovering", "OutputRestarting", "GraphRebuilding"}
Causes == RecoveryCauses \cup {"None"}
Underruns == [count : Int, total : Int, largest : Int]
Transitions ==
  [epoch : Int, cause : Causes, rate : Rates \cup {0}, underrun : Underruns]
Recoveries ==
  [state : RecoveryStates, epoch : Int, generation : Int, rate : Rates \cup {0},
   underrun : Underruns, last : Transitions]

\* The parts of a record after a committed transition.
LEMMA CommittedParts ==
  ASSUME NEW c \in Recoveries, NEW cause \in Causes, NEW next \in RecoveryStates,
         NEW rate \in Rates \cup {0}, NEW underrun \in Underruns
  PROVE  LET d == Committed(c, cause, next, rate, underrun) IN
           /\ d \in Recoveries
           /\ d.underrun = c.underrun
           /\ d.last.underrun = underrun
  BY DEF Recoveries, Transitions, Committed

\* A boundary that is no underrun's leaves the underruns that wait.
LEMMA CommitTransitionKeeps ==
  ASSUME NEW c \in Recoveries, NEW cause \in Causes, NEW next \in RecoveryStates,
         NEW rate \in Rates \cup {0}, NEW underrun \in Underruns
  PROVE  LET d == CommitTransition(c, cause, next, rate, underrun) IN
           d \in Recoveries /\ d.underrun = c.underrun
  BY CommittedParts DEF CommitTransition

LEMMA NoUnderrunType == NoUnderrun \in Underruns
  BY DEF NoUnderrun, Underruns

LEMMA BoundariesKeep ==
  ASSUME NEW c \in Recoveries, NEW rate \in Rates
  PROVE  \A d \in {EnterBuffering(c), RestartOutput(c), ChangeSampleRate(c, rate),
                   RebuildGraph(c), MarkReady(c)} :
           d \in Recoveries /\ d.underrun = c.underrun
  <1>0. c.rate \in Rates \cup {0}
    BY DEF Recoveries
  <1>1. LET d == EnterBuffering(c) IN d \in Recoveries /\ d.underrun = c.underrun
    BY ZenonT(30), <1>0, CommitTransitionKeeps, NoUnderrunType
       DEF Causes, RecoveryCauses, RecoveryStates, EnterBuffering
  <1>2. LET d == RestartOutput(c) IN d \in Recoveries /\ d.underrun = c.underrun
    BY <1>0, CommitTransitionKeeps, NoUnderrunType
       DEF Causes, RecoveryCauses, RecoveryStates, RestartOutput
  <1>3. LET d == ChangeSampleRate(c, rate) IN d \in Recoveries /\ d.underrun = c.underrun
    BY <1>0, CommitTransitionKeeps, NoUnderrunType
       DEF Causes, RecoveryCauses, RecoveryStates, ChangeSampleRate
  <1>4. LET d == RebuildGraph(c) IN d \in Recoveries /\ d.underrun = c.underrun
    BY <1>0, CommitTransitionKeeps, NoUnderrunType
       DEF Causes, RecoveryCauses, RecoveryStates, RebuildGraph
  <1>5. LET d == MarkReady(c) IN d \in Recoveries /\ d.underrun = c.underrun
    BY DEF MarkReady, Recoveries, RecoveryStates
  <1> QED
    BY <1>1, <1>2, <1>3, <1>4, <1>5

\* A recorded underrun adds its frames to those that wait.
LEMMA RecordUnderrunAdds ==
  ASSUME NEW c \in Recoveries, NEW missing \in Int
  PROVE  LET d == RecordUnderrun(c, missing) IN
           d \in Recoveries /\ d.underrun.total = c.underrun.total + missing
  BY DEF RecordUnderrun, Recoveries, Underruns

\* A recovery puts all that wait in its boundary, or leaves everything.
LEMMA RecoverTakesAll ==
  ASSUME NEW c \in Recoveries
  PROVE  LET d == RecoverUnderrun(c) IN
           /\ d \in Recoveries
           /\ Exhausted(c) => d = c
           /\ ~Exhausted(c) /\ c.underrun # NoUnderrun =>
                d.last.underrun.total = c.underrun.total /\ d.underrun.total = 0
  <1> DEFINE d == Committed(c, "Underrun", "Recovering", c.rate, c.underrun)
  <1>1. /\ d \in Recoveries
        /\ d.underrun = c.underrun
        /\ d.last.underrun = c.underrun
    BY CommittedParts DEF Recoveries, Causes, RecoveryCauses, RecoveryStates
  <1> HIDE DEF d
  <1>2. LET e == [d EXCEPT !.underrun = NoUnderrun] IN
          /\ e \in Recoveries
          /\ e.underrun = NoUnderrun /\ e.last = d.last
    BY <1>1, NoUnderrunType DEF Recoveries
  <1>3. NoUnderrun.total = 0
    BY DEF NoUnderrun
  <1> QED
    BY <1>1, <1>2, <1>3 DEF RecoverUnderrun, d

(***************************************************************************)
(* Underruns, from the callback to the boundary that takes them.           *)
(***************************************************************************)
CallbackPlaces == {"Idle", "Missing", "Sequence", "Pending", "Clock", "Fields"}

PortType ==
  /\ recovery \in Recoveries
  /\ recorded \in [all : Int, boundaries : Int]
  /\ signals \in [pending : BOOLEAN, sequence : Int, missing : Int]
  /\ callback \in [at : CallbackPlaces, silent : Int, field : Int]
  /\ coordinator \in [at : {"Idle", "Taken", "Sequenced"}, sequence : Int]

\* What the callback has told of is raised, on its way, or recorded.
Told ==
  callback.at # "Pending" =>
    \/ signals.pending
    \/ coordinator.at = "Taken"
    \/ coordinator.at = "Sequenced" /\ coordinator.sequence = signals.sequence
    \/ coordinator.at = "Idle" /\ covered = signals.sequence

PortInv == PortType /\ Told /\ UnderrunsAreAccounted

\* What a device step does to the ports.
PortChange ==
  \/ PortStep
  \/ \E requested, copied \in Nat : Render(requested, copied)
  \/ ResetTimeline
  \/ UNCHANGED portVars

LEMMA PortInit_ == PortInit => PortInv
  <1> SUFFICES ASSUME PortInit PROVE PortInv
    OBVIOUS
  <1>1. recovery = NewCoordinator(CHOOSE rate \in Rates : TRUE)
    BY DEF PortInit
  <1>2. (CHOOSE rate \in Rates : TRUE) \in Rates
    BY CoordinatorAssumption
  <1>3. NoTransition \in Transitions
    BY DEF NoTransition, Transitions, Causes, NoUnderrun, Underruns
  <1>4. recovery \in Recoveries /\ recovery.underrun.total = 0
    BY <1>1, <1>2, <1>3, NoUnderrunType
       DEF NewCoordinator, Recoveries, RecoveryStates, NoUnderrun
  <1> QED
    BY <1>4 DEF PortInit, PortInv, PortType, Told, UnderrunsAreAccounted, CallbackPlaces

\* The callback's steps.
LEMMA CallbackKeeps == PortInv /\ CallbackStep => PortInv'
  <1> SUFFICES ASSUME PortInv, CallbackStep PROVE PortInv'
    OBVIOUS
  <1> USE DEF PortInv, PortType, Told, UnderrunsAreAccounted, CallbackPlaces, clock
  <1>1. CASE StoreMissing
    BY <1>1 DEF StoreMissing, Publishes
  <1>2. CASE CountUnderrun
    BY <1>2 DEF CountUnderrun, Publishes
  <1>3. CASE RaiseUnderrun
    BY <1>3 DEF RaiseUnderrun, Publishes
  <1>4. CASE BeginClock
    BY <1>4 DEF BeginClock
  <1>5. CASE StoreField
    BY <1>5 DEF StoreField
  <1>6. CASE EndClock
    BY <1>6 DEF EndClock
  <1> QED
    BY <1>1, <1>2, <1>3, <1>4, <1>5, <1>6 DEF CallbackStep

\* The coordinator's steps.
LEMMA CoordinatorKeeps == PortInv /\ CoordinatorStep => PortInv'
  <1> SUFFICES ASSUME PortInv, CoordinatorStep PROVE PortInv'
    OBVIOUS
  <1> USE DEF PortInv, PortType, Told, UnderrunsAreAccounted, Coordinates, clock
  <1>1. CASE TakeUnderrun
    <2>1. signals' \in [pending : BOOLEAN, sequence : Int, missing : Int]
      BY <1>1 DEF TakeUnderrun
    <2>2. coordinator' = [at |-> "Taken", sequence |-> 0]
      BY <1>1 DEF TakeUnderrun
    <2>3. coordinator'.at = "Taken"
      BY <2>2
    <2>4. UNCHANGED <<recovery, recorded, callback>>
      BY <1>1 DEF TakeUnderrun
    <2> QED
      BY <2>1, <2>2, <2>3, <2>4
  <1>2. CASE LoadSequence
    BY <1>2 DEF LoadSequence
  <1>3. CASE RecordTaken
    <2>1. /\ recovery' \in Recoveries
          /\ recovery'.underrun.total = recovery.underrun.total + signals.missing
      BY <1>3, RecordUnderrunAdds DEF RecordTaken
    <2>2. recovery.underrun.total \in Int
      BY DEF Recoveries, Underruns
    <2>3. /\ recorded'.all = recorded.all + signals.missing
          /\ recorded'.boundaries = recorded.boundaries
          /\ recorded' \in [all : Int, boundaries : Int]
      BY <1>3 DEF RecordTaken
    <2>4. /\ coordinator' = [at |-> "Idle", sequence |-> 0]
          /\ coordinator.at = "Sequenced" /\ covered' = coordinator.sequence
          /\ UNCHANGED <<signals, callback>>
      BY <1>3 DEF RecordTaken
    <2>5. UnderrunsAreAccounted'
      BY <2>1, <2>2, <2>3
    <2>6. Told'
      BY <2>4
    <2> QED
      BY <2>1, <2>3, <2>4, <2>5, <2>6
  <1> QED
    BY <1>1, <1>2, <1>3 DEF CoordinatorStep

\* Boundaries.
LEMMA BoundsKeeps ==
  ASSUME PortInv, NEW next \in Recoveries, next.underrun = recovery.underrun, Bounds(next)
  PROVE  PortInv'
  BY DEF PortInv, PortType, Told, UnderrunsAreAccounted, Bounds, Coordinates, clock

LEMMA BoundaryKeeps == PortInv /\ (Boundary \/ Ready) => PortInv'
  <1> SUFFICES ASSUME PortInv, Boundary \/ Ready PROVE PortInv'
    OBVIOUS
  <1>1. recovery \in Recoveries /\ \E rate : rate \in Rates
    BY CoordinatorAssumption DEF PortInv, PortType
  <1>2. CASE Bounds(EnterBuffering(recovery)) \/ Bounds(RestartOutput(recovery))
    BY <1>1, <1>2, BoundariesKeep, BoundsKeeps
  <1>3. CASE \E rate \in Rates : Bounds(ChangeSampleRate(recovery, rate))
    BY <1>1, <1>3, BoundariesKeep, BoundsKeeps
  <1>4. CASE Bounds(RebuildGraph(recovery)) \/ Bounds(MarkReady(recovery))
    BY <1>1, <1>4, BoundariesKeep, BoundsKeeps
  <1> QED
    BY <1>2, <1>3, <1>4 DEF Boundary, Ready

LEMMA RecoverKeeps == PortInv /\ Recover => PortInv'
  <1> SUFFICES ASSUME PortInv, Recover PROVE PortInv'
    OBVIOUS
  <1>1. recovery \in Recoveries
    BY DEF PortInv, PortType
  <1>2. /\ recovery' \in Recoveries
        /\ Exhausted(recovery) => recovery' = recovery
        /\ ~Exhausted(recovery) =>
             /\ recovery'.last.underrun.total = recovery.underrun.total
             /\ recovery'.underrun.total = 0
    BY <1>1, RecoverTakesAll DEF Recover
  <1>3. recovery.underrun.total \in Int
    BY <1>1 DEF Recoveries, Underruns
  <1>4. UnderrunsAreAccounted'
    <2>1. CASE Exhausted(recovery)
      BY <1>2, <2>1 DEF PortInv, UnderrunsAreAccounted, Recover
    <2>2. CASE ~Exhausted(recovery)
      BY <1>2, <1>3, <2>2 DEF PortInv, PortType, UnderrunsAreAccounted, Recover
    <2> QED
      BY <2>1, <2>2
  <1>5. recorded' \in [all : Int, boundaries : Int]
    BY <1>2, <1>3 DEF PortInv, PortType, Recover
  <1> QED
    BY <1>2, <1>4, <1>5 DEF PortInv, PortType, Told, Recover, Coordinates, clock

LEMMA PortChangeKeeps == PortInv /\ PortChange => PortInv'
  <1> SUFFICES ASSUME PortInv, PortChange PROVE PortInv'
    OBVIOUS
  <1>1. CASE PortStep
    <2>1. CASE \E r \in Readers : LoadBefore(r) \/ LoadField(r) \/ LoadAfter(r)
      BY <2>1 DEF PortInv, PortType, Told, UnderrunsAreAccounted, LoadBefore,
         LoadField, LoadAfter, Reads, clock
    <2> QED
      BY <1>1, <2>1, CallbackKeeps, CoordinatorKeeps, RecoverKeeps, BoundaryKeeps
         DEF PortStep
  <1>2. CASE \E requested, copied \in Nat : Render(requested, copied)
    BY <1>2 DEF PortInv, PortType, Told, UnderrunsAreAccounted, Render, CallbackPlaces
  <1>3. CASE ResetTimeline
    BY <1>3 DEF PortInv, PortType, Told, UnderrunsAreAccounted, ResetTimeline
  <1>4. CASE UNCHANGED portVars
    BY <1>4 DEF portVars, PortInv, PortType, Told, UnderrunsAreAccounted
  <1> QED
    BY <1>1, <1>2, <1>3, <1>4 DEF PortChange

(***************************************************************************)
(* What an output claims of itself.                                        *)
(***************************************************************************)
\* The claim is made when there is no obstacle to it.
LEMMA EligibleMeetsNoObstacle ==
  ASSUME NEW request, NEW observation,
         BitPerfectReason(request, observation) = "Eligible"
  PROVE  /\ request.codec # "Unknown" /\ observation.format = request.source
         /\ request.normalRate /\ request.unity
         /\ observation.dsp # "Unknown"
  <1> DEFINE o ==
        << <<"MissingObservedLatency", ~observation.latency>>,
           <<"UnknownSourceCodec", request.codec = "Unknown">>,
           <<"FormatChanged", observation.format # request.source>>,
           <<"PlaybackRateChanged", ~request.normalRate>>,
           <<"VolumeProcessing", ~request.unity>>,
           <<"Conversion", observation.changed # "No">>,
           <<"DspEnabled", observation.dsp = "Yes">>,
           <<"MissingDspEvidence", observation.dsp = "Unknown">>,
           <<"Eligible", TRUE>> >>
             first == CHOOSE i \in DOMAIN o : o[i][2] /\ \A j \in 1 .. i - 1 : ~o[j][2]
  <1>1. BitPerfectReason(request, observation) = o[first][1]
    BY DEF BitPerfectReason
  <1>2. DOMAIN o = 1 .. 9 /\ o[9][2]
    <2>1. DOMAIN o = 1 .. 9
      OBVIOUS
    <2>2. o[9] = <<"Eligible", TRUE>>
      OBVIOUS
    <2> QED
      BY <2>1, <2>2
  <1>3. /\ o[1][1] # "Eligible" /\ o[2][1] # "Eligible" /\ o[3][1] # "Eligible"
        /\ o[4][1] # "Eligible" /\ o[5][1] # "Eligible" /\ o[6][1] # "Eligible"
        /\ o[7][1] # "Eligible" /\ o[8][1] # "Eligible"
    OBVIOUS
  <1>4. /\ o[2][2] = (request.codec = "Unknown")
        /\ o[3][2] = (observation.format # request.source)
        /\ o[4][2] = ~request.normalRate /\ o[5][2] = ~request.unity
        /\ o[8][2] = (observation.dsp = "Unknown")
    OBVIOUS
  <1> HIDE DEF o
  <1>5. \E i \in DOMAIN o : o[i][2] /\ \A j \in 1 .. i - 1 : ~o[j][2]
    <2>1. CASE o[1][2]
      BY <2>1, <1>2
    <2>2. CASE ~o[1][2] /\ o[2][2]
      BY <2>2, <1>2
    <2>3. CASE ~o[1][2] /\ ~o[2][2] /\ o[3][2]
      BY <2>3, <1>2
    <2>4. CASE ~o[1][2] /\ ~o[2][2] /\ ~o[3][2] /\ o[4][2]
      BY <2>4, <1>2
    <2>5. CASE ~o[1][2] /\ ~o[2][2] /\ ~o[3][2] /\ ~o[4][2] /\ o[5][2]
      BY <2>5, <1>2
    <2>6. CASE ~o[1][2] /\ ~o[2][2] /\ ~o[3][2] /\ ~o[4][2] /\ ~o[5][2] /\ o[6][2]
      BY <2>6, <1>2
    <2>7. CASE /\ ~o[1][2] /\ ~o[2][2] /\ ~o[3][2] /\ ~o[4][2] /\ ~o[5][2] /\ ~o[6][2]
               /\ o[7][2]
      BY <2>7, <1>2
    <2>8. CASE /\ ~o[1][2] /\ ~o[2][2] /\ ~o[3][2] /\ ~o[4][2] /\ ~o[5][2] /\ ~o[6][2]
               /\ ~o[7][2] /\ o[8][2]
      BY <2>8, <1>2
    <2>9. CASE /\ ~o[1][2] /\ ~o[2][2] /\ ~o[3][2] /\ ~o[4][2] /\ ~o[5][2] /\ ~o[6][2]
               /\ ~o[7][2] /\ ~o[8][2]
      BY <2>9, <1>2
    <2> QED
      BY <2>1, <2>2, <2>3, <2>4, <2>5, <2>6, <2>7, <2>8, <2>9
  <1>6. first \in 1 .. 9 /\ \A j \in 1 .. first - 1 : ~o[j][2]
    BY <1>2, <1>5
  <1> HIDE DEF first
  <1>7. first = 9
    <2>1. first \notin {1, 2, 3, 4, 5, 6, 7, 8}
      BY <1>1, <1>3
    <2> QED
      BY <2>1, <1>6
  <1>8. ~o[2][2] /\ ~o[3][2] /\ ~o[4][2] /\ ~o[5][2] /\ ~o[8][2]
    BY <1>6, <1>7
  <1> QED
    BY Zenon, <1>8, <1>4

(***************************************************************************)
(* The output and the frames it got.                                       *)
(***************************************************************************)
Modes == {"Shared", "Exclusive"}
Lifecycles == {"Dropped", "Prepared", "Running", "Stopped", "Unavailable"}

\* An open in progress has its mode, and no output yet.
OpeningType(o) ==
  /\ DOMAIN o = {"asked", "mode", "at", "policy", "request", "format"}
  /\ o.at # "Idle" => o.mode \in Modes /\ output = NoOutput

OutputType ==
  /\ OpeningType(opening)
  /\ output \in [mode : Modes \cup {None}, eligible : BOOLEAN, lifecycle : Lifecycles,
                 removed : BOOLEAN, frames : 0 .. Period]
  /\ opens \in Nat
  /\ delivered \in [written : Int, failed : Nat, removed : Int]
  /\ timeline \in [epoch : Int, rendered : Int, media : Int]

\* An output that can still lose a period to a removal.
CanLose == output # NoOutput /\ ~(output.removed /\ output.frames = 0)

RemovalsAreCounted ==
  delivered.removed + (IF CanLose THEN Period ELSE 0) <= Period * opens

OutputInv ==
  OutputType /\ RemovalsAreCounted /\ ClockCoversTheEndpoint

LEMMA OutputInit == DeviceInit => OutputInv
  BY OutputAssumption
     DEF DeviceInit, PortInit, NoSample, Sample, Delivered, OutputInv, OutputType, OpeningType,
         NoOpening,
         NoOutput, Modes, Lifecycles, RemovalsAreCounted,
         CanLose, ClockCoversTheEndpoint

\* An open in progress touches nothing else.
LEMMA OpensKeeps ==
  ASSUME OutputInv, NEW next, OpeningType(next), Opens(next) PROVE OutputInv'
  BY DEF OutputInv, OutputType, OpeningType, RemovalsAreCounted,
     CanLose, ClockCoversTheEndpoint, Opens, portVars

LEMMA OpenKeeps ==
  ASSUME OutputInv, NEW mode \in Modes, NEW policy, NEW request, Open(mode, policy, request)
  PROVE  OutputInv'
  <1> DEFINE next == [NoOpening EXCEPT !.asked = mode, !.mode = mode, !.at = "Select",
                                       !.policy = policy, !.request = request]
  <1>1. OpeningType(next)
    BY DEF OpeningType, Open, NoOpening, Modes
  <1>2. Opens(next)
    BY DEF Open
  <1> QED
    BY <1>1, <1>2, OpensKeeps

LEMMA FailOpeningKeeps ==
  ASSUME OutputInv, opening.at # "Idle", NEW failure, FailOpening(failure)
  PROVE  OutputInv'
  <1>1. OpeningType(NoOpening)
    BY DEF OpeningType, NoOpening
  <1>2. OpeningType([opening EXCEPT !.mode = "Shared", !.at = "Select"])
    BY DEF OutputInv, OutputType, OpeningType, Modes
  <1> QED
    BY <1>1, <1>2, OpensKeeps DEF FailOpening

LEMMA SelectKeeps ==
  ASSUME OutputInv, SelectEndpoint \/ NegotiateExclusive PROVE OutputInv'
  <1>1. CASE \E failure : FailOpening(failure) /\ opening.at # "Idle"
    BY <1>1, FailOpeningKeeps
  <1>2. ASSUME NEW at, opening.at # "Idle" PROVE OpeningType([opening EXCEPT !.at = at])
    BY <1>2 DEF OutputInv, OutputType, OpeningType
  <1>3. ASSUME NEW format, opening.at # "Idle"
        PROVE  OpeningType([opening EXCEPT !.at = "Open", !.format = format])
    BY <1>3 DEF OutputInv, OutputType, OpeningType
  <1> QED
    BY <1>1, <1>2, <1>3, OpensKeeps DEF SelectEndpoint, NegotiateExclusive

\* A new output, with what its report may claim.
LEMMA PreparedKeeps ==
  ASSUME OutputInv, opening.at # "Idle", NEW negotiated, NEW latency,
         Prepared(negotiated, latency)
  PROVE  OutputInv'
  <1>1. output = NoOutput /\ opening.mode \in Modes
    BY DEF OutputInv, OutputType, OpeningType
  <1>2. PICK eligible \in BOOLEAN :
          output' = [mode |-> opening.mode, eligible |-> eligible,
                     lifecycle |-> "Prepared", removed |-> FALSE, frames |-> 0]
    <2> DEFINE o == Observation(opening.mode, opening.request, negotiated, latency)
               e == BitPerfectReason(opening.request, o) = "Eligible"
    <2>3. output' = [NoOutput EXCEPT !.mode = opening.mode, !.lifecycle = "Prepared",
                                     !.eligible = e]
      BY DEF Prepared
    <2>4. e \in BOOLEAN
      OBVIOUS
    <2> HIDE DEF e
    <2>5. output' = [mode |-> opening.mode, eligible |-> e,
                     lifecycle |-> "Prepared", removed |-> FALSE, frames |-> 0]
      BY <2>3 DEF NoOutput
    <2> QED
      BY <2>4, <2>5
  <1>3. /\ opening' = NoOpening /\ opens' = opens + 1
        /\ UNCHANGED <<timeline, delivered>>
    BY DEF Prepared, portVars
  <1>4. OutputType'
    BY <1>1, <1>2, <1>3, OutputAssumption
       DEF OutputInv, OutputType, OpeningType, NoOpening, Modes, Lifecycles
  <1>5. delivered.removed <= Period * opens
    BY <1>1, OutputAssumption DEF OutputInv, OutputType, RemovalsAreCounted, CanLose
  <1>6. Period * opens' = Period * opens + Period
    BY <1>3, OutputAssumption DEF OutputInv, OutputType
  <1>7. RemovalsAreCounted'
    BY <1>3, <1>5, <1>6, OutputAssumption
       DEF OutputInv, OutputType, RemovalsAreCounted
  <1>8. ClockCoversTheEndpoint'
    <2>1. output.frames = 0 /\ output'.frames = 0
      BY <1>1, <1>2 DEF NoOutput
    <2>2. Period * opens <= Period * opens'
      BY <1>6, OutputAssumption DEF OutputInv, OutputType
    <2> QED
      BY <1>3, <1>5, <1>6, <2>1, <2>2, OutputAssumption
         DEF OutputInv, OutputType, ClockCoversTheEndpoint
  <1> QED
    BY <1>4, <1>7, <1>8 DEF OutputInv

\* A step of the output that neither counts nor loses frames.
LEMMA QuietKeeps ==
  ASSUME OutputInv, NEW lifecycle \in Lifecycles, NEW removed \in BOOLEAN,
         \/ output' = NoOutput /\ output.frames = 0
         \/ /\ output # NoOutput
            /\ output' = [mode |-> output.mode, eligible |-> output.eligible,
                          lifecycle |-> lifecycle, removed |-> output.removed \/ removed,
                          frames |-> output.frames],
         UNCHANGED <<opening, opens, delivered, timeline>>
  PROVE  OutputInv'
  <1>1. OutputType'
    <2>1. output' \in [mode : Modes \cup {None}, eligible : BOOLEAN,
                      lifecycle : Lifecycles, removed : BOOLEAN, frames : 0 .. Period]
      <3>1. CASE output' = NoOutput
        BY <3>1, OutputAssumption DEF NoOutput, Lifecycles
      <3>2. CASE output' # NoOutput
        <4>1. (output.removed \/ removed) \in BOOLEAN
          OBVIOUS
        <4> QED
          BY <3>2, <4>1 DEF OutputInv, OutputType
      <3> QED
        BY <3>1, <3>2
    <2>2. OpeningType(opening)'
      BY DEF OutputInv, OutputType, OpeningType
    <2> QED
      BY <2>1, <2>2 DEF OutputInv, OutputType
  <1>2. RemovalsAreCounted'
    BY OutputAssumption DEF OutputInv, OutputType, RemovalsAreCounted, CanLose
  <1>3. ClockCoversTheEndpoint'
    BY DEF OutputInv, OutputType, ClockCoversTheEndpoint, NoOutput
  <1> QED
    BY <1>1, <1>2, <1>3 DEF OutputInv

LEMMA BecomesKeeps ==
  ASSUME OutputInv, Free, NEW lifecycle \in Lifecycles, Becomes(lifecycle)
  PROVE  OutputInv'
  <1>1. output' = [mode |-> output.mode, eligible |-> output.eligible,
                   lifecycle |-> lifecycle, removed |-> output.removed \/ FALSE,
                   frames |-> output.frames]
    BY DEF OutputInv, OutputType, Becomes
  <1> QED
    BY <1>1, QuietKeeps DEF Becomes, Free, portVars

LEMMA EndpointKeeps == OutputInv /\ EndpointChanges => OutputInv'
  <1> SUFFICES ASSUME OutputInv, EndpointChanges PROVE OutputInv'
    OBVIOUS
  <1>1. CASE output = NoOutput
    <2>1. output' = NoOutput /\ output.frames = 0
      BY <1>1 DEF EndpointChanges, NoOutput
    <2> QED
      BY <2>1, QuietKeeps DEF EndpointChanges, portVars, Lifecycles
  <1>2. CASE output # NoOutput
    <2>1. output' = [output EXCEPT !.removed = TRUE]
      BY <1>2 DEF EndpointChanges
    <2>2. output' = [mode |-> output.mode, eligible |-> output.eligible,
                     lifecycle |-> output.lifecycle, removed |-> output.removed \/ TRUE,
                     frames |-> output.frames]
      BY <2>1 DEF OutputInv, OutputType
    <2>3. output.lifecycle \in Lifecycles
      BY DEF OutputInv, OutputType
    <2> QED
      BY <1>2, <2>2, <2>3, QuietKeeps DEF EndpointChanges, portVars
  <1> QED
    BY <1>1, <1>2

\* A period is rendered: the frames are counted and wait for the endpoint.
LEMMA RenderEventKeeps == OutputInv /\ RenderEvent => OutputInv'
  <1> SUFFICES ASSUME OutputInv, RenderEvent PROVE OutputInv'
    OBVIOUS
  <1>0. PICK available \in 1 .. Period :
          \E copied \in 0 .. available :
            /\ Render(available, copied)
            /\ output' = [output EXCEPT !.frames = available]
    BY DEF RenderEvent
  <1>1. PICK copied \in 0 .. available :
          /\ timeline' = Sample(timeline.epoch, timeline.rendered + available,
                                timeline.media + copied)
          /\ output' = [output EXCEPT !.frames = available]
    BY <1>0 DEF Render
  <1>2. /\ timeline' \in [epoch : Int, rendered : Int, media : Int]
        /\ timeline'.rendered = timeline.rendered + available
    BY <1>1, OutputAssumption DEF OutputInv, OutputType, Sample
  <1>3. /\ output' \in [mode : Modes \cup {None}, eligible : BOOLEAN,
                         lifecycle : Lifecycles, removed : BOOLEAN, frames : 0 .. Period]
        /\ output'.frames = available /\ output'.removed = output.removed
        /\ output'.eligible = output.eligible /\ output'.mode = output.mode
    BY <1>1, OutputAssumption DEF OutputInv, OutputType
  <1>4. /\ UNCHANGED <<opening, opens, delivered>> /\ output.frames = 0
        /\ output # NoOutput /\ ~output.removed
    BY DEF RenderEvent, Free
  <1>5. OutputType'
    BY <1>2, <1>3, <1>4 DEF OutputInv, OutputType, OpeningType
  <1>6. RemovalsAreCounted'
    BY <1>4, OutputAssumption DEF OutputInv, OutputType, RemovalsAreCounted, CanLose
  <1>7. ClockCoversTheEndpoint'
    BY <1>2, <1>3, <1>4, OutputAssumption
       DEF OutputInv, OutputType, ClockCoversTheEndpoint
  <1> QED
    BY <1>5, <1>6, <1>7 DEF OutputInv

\* The frames reach the endpoint, or are lost with at most a period to a failed
\* write.
LEMMA WriteFramesKeeps == OutputInv /\ WriteFrames => OutputInv'
  <1> SUFFICES ASSUME OutputInv, WriteFrames PROVE OutputInv'
    OBVIOUS
  <1>0. /\ output.frames \in 1 .. Period /\ output # NoOutput
        /\ opening' = opening /\ opens' = opens /\ timeline' = timeline
        /\ opening.at = "Idle"
    BY OutputAssumption
       DEF WriteFrames, OutputInv, OutputType, OpeningType, NoOutput, portVars
  <1>1. PICK lifecycle \in Lifecycles :
          output' = [mode |-> output.mode, eligible |-> output.eligible,
                     lifecycle |-> lifecycle, removed |-> output.removed, frames |-> 0]
    <2>1. CASE FailWrite
      BY <2>1 DEF FailWrite, OutputInv, OutputType, Lifecycles
    <2>2. CASE output' = [output EXCEPT !.frames = 0]
      BY <2>2 DEF Delivered, OutputInv, OutputType
    <2> QED
      BY <2>1, <2>2 DEF WriteFrames
  <1>2. \/ /\ delivered'.failed = delivered.failed + 1
           /\ delivered'.written = delivered.written
           /\ delivered'.removed =
                delivered.removed + (IF output.removed THEN output.frames ELSE 0)
        \/ /\ delivered'.failed = delivered.failed
           /\ delivered'.written = delivered.written + output.frames
           /\ delivered'.removed = delivered.removed
    <2>1. CASE FailWrite
      BY <2>1 DEF FailWrite, Delivered, OutputInv, OutputType
    <2>2. CASE delivered' = Delivered(delivered.written + output.frames,
                                          delivered.failed, delivered.removed)
      BY <2>2 DEF Delivered, OutputInv, OutputType
    <2> QED
      BY <2>1, <2>2 DEF WriteFrames
  <1>3. delivered' \in [written : Int, failed : Nat, removed : Int]
    <2>1. CASE FailWrite
      <3>1. delivered.removed + (IF output.removed THEN output.frames ELSE 0) \in Int
        BY <1>0 DEF OutputInv, OutputType
      <3> QED
        BY <2>1, <3>1 DEF FailWrite, Delivered, OutputInv, OutputType
    <2>2. CASE delivered' = Delivered(delivered.written + output.frames,
                                          delivered.failed, delivered.removed)
      BY <2>2, <1>0 DEF Delivered, OutputInv, OutputType
    <2> QED
      BY <2>1, <2>2 DEF WriteFrames
  <1>4. OutputType'
    BY <1>0, <1>1, <1>3, OutputAssumption DEF OutputInv, OutputType, OpeningType
  <1>5. RemovalsAreCounted'
    BY <1>0, <1>1, <1>2, OutputAssumption
       DEF OutputInv, OutputType, RemovalsAreCounted, CanLose
  <1>6. Period * (delivered.failed + 1) = Period * delivered.failed + Period
    BY OutputAssumption DEF OutputInv, OutputType
  <1>7. /\ delivered'.written <= timeline'.rendered - output'.frames
        /\ timeline'.rendered - output'.frames <=
             delivered'.written + Period * delivered'.failed
    <2>1. /\ delivered.written <= timeline.rendered - output.frames
          /\ timeline.rendered - output.frames <=
               delivered.written + Period * delivered.failed
      BY DEF OutputInv, ClockCoversTheEndpoint
    <2>2. output'.frames = 0
      BY <1>1
    <2>3. Period * delivered.failed \in Int /\ timeline.rendered \in Int
      BY OutputAssumption DEF OutputInv, OutputType
    <2>4. delivered.written \in Int /\ delivered.failed \in Int
      BY DEF OutputInv, OutputType
    <2>5. CASE /\ delivered'.failed = delivered.failed + 1
               /\ delivered'.written = delivered.written
      <3>1. Period * delivered'.failed = Period * delivered.failed + Period
        BY <1>6, <2>5
      <3> QED
        <4>1. output.frames \in Int /\ output.frames <= Period /\ Period \in Int
          BY <1>0, OutputAssumption
        <4>2. delivered.written <= timeline.rendered
          BY <1>0, <2>1, <2>3, <2>4
        <4>3. timeline.rendered <= delivered.written + (Period * delivered.failed + Period)
          BY <2>1, <2>3, <2>4, <4>1
        <4> QED
          BY <1>0, <2>2, <2>3, <2>5, <3>1, <4>2, <4>3
    <2>6. CASE /\ delivered'.failed = delivered.failed
               /\ delivered'.written = delivered.written + output.frames
      <3>1. Period * delivered'.failed = Period * delivered.failed
        BY <2>6
      <3>2. output.frames \in Int
        BY <1>0
      <3>3. delivered.written + output.frames <= timeline.rendered
        BY <2>1, <2>3, <2>4, <3>2
      <3>4. timeline.rendered <=
              delivered.written + output.frames + Period * delivered.failed
        BY <2>1, <2>3, <2>4, <3>2
      <3> QED
        BY <1>0, <2>2, <2>3, <2>6, <3>1, <3>3, <3>4
    <2> QED
      BY <1>2, <2>5, <2>6
  <1>8. delivered'.removed <= Period * opens'
    <2>1. Period * opens \in Int /\ Period \in Nat
      BY OutputAssumption DEF OutputInv, OutputType
    <2> QED
      BY <1>5, <1>3, <1>0, <2>1 DEF RemovalsAreCounted
  <1> QED
    BY <1>4, <1>5, <1>7, <1>8 DEF OutputInv, ClockCoversTheEndpoint

\* A new timeline starts with nothing rendered, written or failed.
LEMMA NewTimelineKeeps == OutputInv /\ PortInv /\ NewTimeline => OutputInv'
  <1> SUFFICES ASSUME OutputInv, PortInv, NewTimeline PROVE OutputInv'
    OBVIOUS
  <1>1. timeline' \in [epoch : Int, rendered : Int, media : Int]
        /\ timeline'.rendered = 0
    BY DEF NewTimeline, ResetTimeline, Sample, OutputInv, OutputType, PortInv,
       PortType, Recoveries
  <1>2. /\ delivered' \in [written : Int, failed : Nat, removed : Int]
        /\ delivered'.written = 0 /\ delivered'.failed = 0
        /\ delivered'.removed = delivered.removed
    BY DEF NewTimeline, Delivered, OutputInv, OutputType
  <1>3. UNCHANGED <<opening, output, opens>> /\ output.frames = 0
    BY DEF NewTimeline
  <1> QED
    BY <1>1, <1>2, <1>3, OutputAssumption
       DEF OutputInv, OutputType, OpeningType,
           RemovalsAreCounted, CanLose, ClockCoversTheEndpoint

LEMMA StutterKeeps ==
  OutputInv /\ UNCHANGED <<timeline, opening, output, opens, delivered>> => OutputInv'
  BY DEF OutputInv, OutputType, OpeningType, RemovalsAreCounted,
     CanLose, ClockCoversTheEndpoint

\* The steps of the ports leave the timeline to render and reset_timeline.
LEMMA PortStepKeepsTimeline == PortStep => UNCHANGED timeline
  BY DEF PortStep, CallbackStep, StoreMissing, CountUnderrun, RaiseUnderrun, Publishes,
     BeginClock, StoreField, EndClock, LoadBefore, LoadField, LoadAfter, Reads,
     CoordinatorStep, TakeUnderrun, LoadSequence, RecordTaken, Recover, Boundary,
     Ready, Bounds, Coordinates, clock

DeviceInv == PortInv /\ OutputInv

LEMMA OutputStepKeeps == DeviceInv /\ DeviceNext => OutputInv'
  <1> SUFFICES ASSUME PortInv, OutputInv, DeviceNext PROVE OutputInv'
    BY DEF DeviceInv
  <1>1. ASSUME NEW mode \in {"Shared", "Exclusive"}, NEW policy \in Policies,
               NEW request \in OutputRequests, Open(mode, policy, request)
        PROVE  OutputInv'
    BY <1>1, OpenKeeps DEF Modes
  <1>2. CASE SelectEndpoint \/ NegotiateExclusive
    BY <1>2, SelectKeeps
  <1>3. CASE OpenShared \/ OpenExclusive
    BY <1>3, FailOpeningKeeps, PreparedKeeps DEF OpenShared, OpenExclusive
  <1>4. CASE Start \/ Stop \/ MeetRemoval
    BY <1>4, BecomesKeeps DEF Start, Stop, MeetRemoval, Lifecycles
  <1>5. CASE DropOutput
    BY <1>5, QuietKeeps DEF DropOutput, Free, Lifecycles, portVars
  <1>6. CASE PortStep /\ UNCHANGED outputVars
    BY <1>6, PortStepKeepsTimeline, StutterKeeps DEF outputVars
  <1> QED
    BY <1>1, <1>2, <1>3, <1>4, <1>5, <1>6, RenderEventKeeps, WriteFramesKeeps,
       NewTimelineKeeps, EndpointKeeps DEF DeviceNext

\* Whatever the device does, the ports do as PortChange says.
LEMMA DeviceIsPortChange == DeviceNext => PortChange
  <1> SUFFICES ASSUME DeviceNext PROVE PortChange
    OBVIOUS
  <1>1. ASSUME NEW next, Opens(next) PROVE PortChange
    BY <1>1 DEF Opens, PortChange
  <1>2. ASSUME NEW failure, FailOpening(failure) PROVE PortChange
    BY <1>1, <1>2 DEF FailOpening
  <1>3. CASE \E mode \in {"Shared", "Exclusive"}, policy \in Policies,
                request \in OutputRequests : Open(mode, policy, request)
    BY <1>1, <1>3 DEF Open
  <1>4. CASE SelectEndpoint \/ NegotiateExclusive
    BY <1>1, <1>2, <1>4 DEF SelectEndpoint, NegotiateExclusive
  <1>5. CASE OpenShared \/ OpenExclusive
    BY <1>2, <1>5 DEF OpenShared, OpenExclusive, Prepared, PortChange
  <1>6. CASE Start \/ Stop \/ MeetRemoval \/ WriteFrames \/ DropOutput \/ EndpointChanges
    BY <1>6 DEF Start, Stop, MeetRemoval, Becomes, WriteFrames, DropOutput,
       EndpointChanges, PortChange
  <1>7. CASE RenderEvent
    BY <1>7, OutputAssumption DEF RenderEvent, PortChange
  <1>8. CASE NewTimeline
    BY <1>8 DEF NewTimeline, PortChange
  <1>9. CASE PortStep
    BY <1>9 DEF PortChange
  <1> QED
    BY <1>3, <1>4, <1>5, <1>6, <1>7, <1>8, <1>9 DEF DeviceNext

LEMMA DeviceInvHolds == EngineSpec => []DeviceInv
  <1>1. Init => DeviceInv
    BY PortInit_, OutputInit DEF Init, DeviceInit, DeviceInv
  <1>2. DeviceInv /\ [Next]_engineVars => DeviceInv'
    <2> SUFFICES ASSUME DeviceInv, [Next]_engineVars PROVE DeviceInv'
      OBVIOUS
    <2>1. CASE DeviceNext
      BY <2>1, OutputStepKeeps, DeviceIsPortChange, PortChangeKeeps DEF DeviceInv
    <2>2. CASE UNCHANGED deviceVars
      BY <2>2, StutterKeeps, PortChangeKeeps
         DEF DeviceInv, deviceVars, outputVars, portVars, PortChange
    <2> QED
      BY <2>1, <2>2 DEF Next, engineVars
  <1> QED
    BY <1>1, <1>2, PTL DEF EngineSpec

(***************************************************************************)
(* What the device end promises.                                           *)
(***************************************************************************)
\* Every missing frame that was recorded waits or is in exactly one boundary, for
\* any bounds of the counters (recovery.rs:283).
THEOREM UnderrunsStayAccounted == EngineSpec => []UnderrunsAreAccounted
  BY DeviceInvHolds, PTL DEF DeviceInv, PortInv

\* No underrun is lost between the callback and the coordinator, however their
\* atomic steps interleave (realtime.rs:221).
THEOREM UnderrunsAreTold == EngineSpec => []UnderrunIsNeverLost
  <1>1. PortInv => UnderrunIsNeverLost
    BY DEF PortInv, Told, UnderrunIsNeverLost
  <1> QED
    BY DeviceInvHolds, <1>1, PTL DEF DeviceInv

\* The clock is never behind what the endpoint got, and ahead only by failed
\* writes and removals, for any period (lib.rs:1065).
THEOREM ClockCovers == EngineSpec => []ClockCoversTheEndpoint
  BY DeviceInvHolds, PTL DEF DeviceInv, OutputInv

\* What a prepared output claims is what its report says.
LEMMA PreparedClaims ==
  ASSUME NEW negotiated, NEW latency, Prepared(negotiated, latency), output'.eligible
  PROVE  BitPerfectReason(opening.request,
           Observation(opening.mode, opening.request, negotiated, latency)) = "Eligible"
  <1> DEFINE e == BitPerfectReason(opening.request,
                    Observation(opening.mode, opening.request, negotiated, latency))
                      = "Eligible"
  <1>1. output' = [NoOutput EXCEPT !.mode = opening.mode, !.lifecycle = "Prepared",
                                   !.eligible = e]
    BY DEF Prepared
  <1> HIDE DEF e
  <1>2. output'.eligible = e
    BY <1>1 DEF NoOutput
  <1>3. e
    BY Zenon, <1>2
  <1> QED
    BY <1>3 DEF e

\* Only a Prepared output can begin to make the claim.
LEMMA ClaimIsMadeOnce ==
  ASSUME OutputInv, DeviceNext, ~output.eligible, output'.eligible
  PROVE  OpenShared \/ OpenExclusive
  <1> USE DEF OutputInv, OutputType
  <1>1. CASE \E mode \in {"Shared", "Exclusive"}, policy \in Policies,
                request \in OutputRequests : Open(mode, policy, request)
    BY <1>1 DEF Open, Opens
  <1>2. CASE SelectEndpoint \/ NegotiateExclusive
    BY <1>2 DEF SelectEndpoint, NegotiateExclusive, FailOpening, Opens
  <1>3. CASE Start \/ Stop \/ MeetRemoval
    BY <1>3 DEF Start, Stop, MeetRemoval, Becomes
  <1>4. CASE RenderEvent
    BY <1>4 DEF RenderEvent, MeetRemoval, Becomes
  <1>5. CASE WriteFrames
    BY <1>5 DEF WriteFrames, FailWrite
  <1>6. CASE DropOutput \/ NewTimeline \/ EndpointChanges
    BY <1>6 DEF DropOutput, NewTimeline, EndpointChanges, NoOutput
  <1>7. CASE PortStep /\ UNCHANGED outputVars
    BY <1>7 DEF outputVars
  <1> QED
    BY <1>1, <1>2, <1>3, <1>4, <1>5, <1>6, <1>7 DEF DeviceNext

\* Only an endpoint opened in Exclusive mode, in the format of a source that is
\* known and that nothing processes, is reported as bit-perfect, for any requests,
\* fallbacks and negotiated formats (lib.rs:1170, output_report.rs:598).
THEOREM OnlyExactIsEligible == EngineSpec => EligibleIsExact
  <1> DEFINE Exact ==
        /\ opening.mode = "Exclusive" /\ opening.format = opening.request.source
        /\ opening.request.codec # "Unknown"
        /\ opening.request.normalRate /\ opening.request.unity
  <1>1. ASSUME OutputInv, DeviceNext, ~output.eligible, output'.eligible
        PROVE  Exact
    <2>1. PICK negotiated, latency :
            /\ Prepared(negotiated, latency)
            /\ opening.mode = "Exclusive" => negotiated = opening.format
      BY <1>1, ClaimIsMadeOnce DEF OpenShared, OpenExclusive, FailOpening, Opens
    <2>2. PICK o : /\ o = Observation(opening.mode, opening.request, negotiated, latency)
                   /\ BitPerfectReason(opening.request, o) = "Eligible"
      BY <1>1, <2>1, PreparedClaims
    <2>3. /\ opening.request.codec # "Unknown" /\ o.format = opening.request.source
          /\ opening.request.normalRate /\ opening.request.unity /\ o.dsp # "Unknown"
      BY <2>2, EligibleMeetsNoObstacle
    <2> QED
      BY <2>1, <2>2, <2>3 DEF Observation
  <1>2. DeviceInv /\ [Next]_engineVars
          => [~output.eligible /\ output'.eligible => Exact]_deviceVars
    BY <1>1 DEF DeviceInv, Next, engineVars, deviceVars
  <1> HIDE DEF Exact
  <1>3. EngineSpec => [][~output.eligible /\ output'.eligible => Exact]_deviceVars
    BY <1>2, DeviceInvHolds, PTL DEF EngineSpec
  <1> USE DEF Exact
  <1> QED
    BY <1>3 DEF EligibleIsExact

(***************************************************************************)
(* The compact clock: a sequence lock.  A reader whose two loads of the    *)
(* sequence agree has seen no publication begin in between, so what it has *)
(* loaded field by field is what was published last; and the timeline a    *)
(* publication copies never goes back.                                     *)
(***************************************************************************)
Samples == [epoch : Int, rendered : Int, media : Int]

\* One sample is no later than another.
NotAfter(p, q) ==
  \/ p.epoch < q.epoch
  \/ p.epoch = q.epoch /\ p.rendered <= q.rendered /\ p.media <= q.media

\* The first so many fields of two samples agree.
Agree(p, q, count) ==
  /\ count >= 1 => p.epoch = q.epoch
  /\ count >= 2 => p.rendered = q.rendered
  /\ count >= 3 => p.media = q.media

LEMMA AgreeWhole ==
  ASSUME NEW p \in Samples, NEW q \in Samples, Agree(p, q, 3)
  PROVE  p = q
  BY DEF Agree, Samples

\* Copying the next field makes one more agree.
LEMMA AgreeNext ==
  ASSUME NEW p \in Samples, NEW q \in Samples, NEW n \in 1 .. 3,
         NEW next, next = [p EXCEPT ![Fields[n]] = q[Fields[n]]]
  PROVE  next \in Samples /\ (Agree(p, q, n - 1) => Agree(next, q, n))
  <1>1. CASE n = 1
    <2>1. next = [p EXCEPT !.epoch = q.epoch]
      BY <1>1 DEF Fields
    <2>2. next \in Samples /\ next.epoch = q.epoch
      BY <2>1 DEF Samples
    <2> QED
      BY <1>1, <2>2 DEF Agree
  <1>2. CASE n = 2
    <2>1. next = [p EXCEPT !.rendered = q.rendered]
      BY <1>2 DEF Fields
    <2>2. /\ next \in Samples
          /\ next.epoch = p.epoch /\ next.rendered = q.rendered
      BY <2>1 DEF Samples
    <2>3. Agree(p, q, n - 1) => p.epoch = q.epoch
      BY <1>2 DEF Agree
    <2> QED
      BY <1>2, <2>2, <2>3 DEF Agree
  <1>3. CASE n = 3
    <2>1. next = [p EXCEPT !.media = q.media]
      BY <1>3 DEF Fields
    <2>2. /\ next \in Samples
          /\ next.epoch = p.epoch /\ next.rendered = p.rendered /\ next.media = q.media
      BY <2>1 DEF Samples
    <2>3. Agree(p, q, n - 1) => p.epoch = q.epoch /\ p.rendered = q.rendered
      BY <1>3 DEF Agree
    <2> QED
      BY <2>2, <2>3 DEF Agree
  <1> QED
    BY <1>1, <1>2, <1>3

LEMMA NoneAgree ==
  ASSUME NEW p, NEW q PROVE Agree(p, q, 0)
  BY DEF Agree

ReaderRecords ==
  [at : {"Idle", "Fields"}, before : Int, field : 1 .. 4, sample : Samples,
   latest : Samples]

ClockType ==
  /\ sequence \in Int
  /\ cell \in Samples /\ timeline \in Samples
  /\ callback.field \in 1 .. 4
  /\ reader \in [Readers -> ReaderRecords]
  /\ published \subseteq Samples

\* The writer: the sequence is odd while it stores the fields, what it stores is
\* the timeline, and nothing later than that was ever published.
WriterInv ==
  /\ sequence % 2 = IF callback.at = "Fields" THEN 1 ELSE 0
  /\ \A p \in published : NotAfter(p, timeline)
  /\ IF callback.at = "Fields"
     THEN Agree(cell, timeline, callback.field - 1)
     ELSE cell \in published /\ \A p \in published : NotAfter(p, cell)
  /\ callback.at \notin {"Fields", "Idle"} => callback.field = 1

\* A reader: it keeps what was published, and as long as the sequence stands
\* what it has loaded is in the cell.
ReaderInv(r) ==
  /\ reader[r].latest \in published
  /\ reader[r].at = "Fields" =>
       /\ reader[r].before % 2 = 0 /\ reader[r].before <= sequence
       /\ reader[r].before = sequence => Agree(reader[r].sample, cell, reader[r].field - 1)

ClockInv == ClockType /\ WriterInv /\ \A r \in Readers : ReaderInv(r)

LEMMA ClockInit == PortInit => ClockInv
  <1> SUFFICES ASSUME PortInit PROVE ClockInv
    OBVIOUS
  <1>1. NoSample \in Samples /\ NotAfter(NoSample, NoSample)
    BY DEF NoSample, Sample, Samples, NotAfter
  <1>2. ClockType
    BY <1>1 DEF PortInit, ClockType, ReaderRecords
  <1>3. WriterInv
    BY <1>1 DEF PortInit, WriterInv
  <1> QED
    BY <1>1, <1>2, <1>3 DEF PortInit, ClockInv, ReaderInv

\* Steps that leave the clock's part of the ports alone.
LEMMA ClockStands ==
  ASSUME ClockInv, UNCHANGED <<sequence, cell, timeline, reader, published>>,
         callback'.field = callback.field,
         \/ callback'.at = callback.at
         \/ {callback.at, callback'.at} \cap {"Fields", "Idle"} = {}
  PROVE  ClockInv' /\ reader' = reader
  <1>1. /\ callback'.at = "Fields" <=> callback.at = "Fields"
        /\ callback'.at \notin {"Fields", "Idle"} => callback.at \notin {"Fields", "Idle"}
    OBVIOUS
  <1> QED
    BY <1>1 DEF ClockInv, ClockType, WriterInv, ReaderInv

\* The timeline goes on between two publications.
LEMMA TimelineGoesOn ==
  ASSUME ClockInv, PortInv,
         (\E requested, copied \in Nat : Render(requested, copied)) \/ ResetTimeline
  PROVE  ClockInv' /\ reader' = reader
  <1>1. /\ callback.at = "Idle" /\ callback'.at # "Fields"
        /\ callback'.field \in 1 .. 4
        /\ callback'.at \notin {"Fields", "Idle"} => callback'.field = 1
        /\ UNCHANGED <<sequence, cell, reader, published>>
    BY DEF Render, ResetTimeline, ClockInv, ClockType
  <1>2. timeline' \in Samples /\ \A p \in Samples : NotAfter(p, timeline) => NotAfter(p, timeline')
    <2>1. CASE \E requested, copied \in Nat : Render(requested, copied)
      <3>1. PICK requested \in Nat, copied \in Nat :
              timeline' = Sample(timeline.epoch, timeline.rendered + requested,
                                 timeline.media + copied)
        BY <2>1 DEF Render
      <3> QED
        BY <3>1 DEF Sample, Samples, NotAfter, ClockInv, ClockType
    <2>2. CASE ResetTimeline
      <3>1. /\ timeline' = Sample(recovery.epoch, 0, timeline.media)
            /\ timeline.epoch < recovery.epoch
            /\ recovery.epoch \in Int
        BY <2>2 DEF ResetTimeline, PortInv, PortType, Recoveries
      <3> QED
        BY <3>1 DEF Sample, Samples, NotAfter, ClockInv, ClockType
    <2> QED
      BY <2>1, <2>2
  <1>3. WriterInv'
    BY <1>1, <1>2 DEF ClockInv, ClockType, WriterInv
  <1> QED
    BY <1>1, <1>2, <1>3 DEF ClockInv, ClockType, ReaderInv

\* A publication begins, stores a field, ends.
LEMMA PublicationKeeps ==
  ASSUME ClockInv, PortInv, BeginClock \/ StoreField \/ EndClock
  PROVE  ClockInv' /\ reader' = reader
  <1>0. /\ sequence \in Int /\ cell \in Samples /\ timeline \in Samples
        /\ callback.field \in 1 .. 4 /\ published \subseteq Samples
        /\ callback \in [at : CallbackPlaces, silent : Int, field : Int]
    BY DEF ClockInv, ClockType, PortInv, PortType
  <1>1. CASE BeginClock
    <2>1. /\ sequence' = sequence + 1 /\ callback'.at = "Fields" /\ callback'.field = 1
          /\ sequence % 2 = 0
          /\ UNCHANGED <<cell, timeline, reader, published>>
      BY <1>0, <1>1 DEF BeginClock, ClockInv, WriterInv
    <2>2. sequence' \in Int /\ sequence' % 2 = 1
      BY <1>0, <2>1
    <2>3. WriterInv'
      BY <2>1, <2>2 DEF ClockInv, WriterInv, Agree
    <2>4. ASSUME NEW r \in Readers PROVE ReaderInv(r)'
      BY <1>0, <2>1 DEF ClockInv, ClockType, ReaderInv, ReaderRecords
    <2> QED
      BY <1>0, <2>1, <2>2, <2>3, <2>4 DEF ClockInv, ClockType
  <1>2. CASE StoreField
    <2>1. /\ callback.at = "Fields" /\ callback'.at = "Fields"
          /\ callback.field \in 1 .. 3 /\ callback'.field = callback.field + 1
          /\ sequence % 2 = 1
          /\ UNCHANGED <<sequence, timeline, reader, published>>
      BY <1>0, <1>2 DEF StoreField, FieldCount, ClockInv, WriterInv
    <2>2. cell' \in Samples /\ Agree(cell', timeline, callback.field)
      <3>1. Agree(cell, timeline, callback.field - 1)
        BY <2>1 DEF ClockInv, WriterInv
      <3>2. cell' = [cell EXCEPT ![Fields[callback.field]] = timeline[Fields[callback.field]]]
        BY <1>2 DEF StoreField
      <3> QED
        BY <1>0, <2>1, <3>1, <3>2, AgreeNext
    <2>3. WriterInv'
      BY <2>1, <2>2 DEF ClockInv, WriterInv
    <2>4. ASSUME NEW r \in Readers PROVE ReaderInv(r)'
      BY <2>1 DEF ClockInv, ReaderInv
    <2> QED
      BY <1>0, <2>1, <2>2, <2>3, <2>4 DEF ClockInv, ClockType
  <1>3. CASE EndClock
    <2>1. /\ callback.at = "Fields" /\ callback'.at = "Idle"
          /\ callback.field = 4 /\ callback'.field = 4
          /\ sequence % 2 = 1 /\ sequence' = sequence + 1
          /\ published' = published \cup {cell}
          /\ UNCHANGED <<cell, timeline, reader>>
      BY <1>0, <1>3 DEF EndClock, FieldCount, ClockInv, WriterInv
    <2>2. cell = timeline
      BY <1>0, <2>1, AgreeWhole DEF ClockInv, WriterInv
    <2>3. NotAfter(timeline, timeline)
      BY <1>0 DEF NotAfter, Samples
    <2>4. sequence' \in Int /\ sequence' % 2 = 0
      BY <1>0, <2>1
    <2>5. WriterInv'
      BY <2>1, <2>2, <2>3, <2>4 DEF ClockInv, WriterInv
    <2>6. ASSUME NEW r \in Readers PROVE ReaderInv(r)'
      BY <1>0, <2>1 DEF ClockInv, ClockType, ReaderInv, ReaderRecords
    <2> QED
      BY <1>0, <2>1, <2>4, <2>5, <2>6 DEF ClockInv, ClockType
  <1> QED
    BY <1>1, <1>2, <1>3

\* A reader loads; what it keeps was published, and is no earlier than what it had.
ReaderGoesOn ==
  \A r \in Readers :
    reader'[r].latest # reader[r].latest =>
      reader'[r].latest \in published /\ NotAfter(reader[r].latest, reader'[r].latest)

LEMMA ReadKeeps ==
  ASSUME ClockInv, NEW r \in Readers, LoadBefore(r) \/ LoadField(r) \/ LoadAfter(r)
  PROVE  ClockInv' /\ ReaderGoesOn
  <1>0. /\ sequence \in Int /\ cell \in Samples
        /\ reader \in [Readers -> ReaderRecords]
        /\ reader[r] \in ReaderRecords
        /\ ReaderInv(r)
    BY DEF ClockInv, ClockType
  <1>1. PICK record : Reads(r, record) /\ reader' = [reader EXCEPT ![r] = record]
    BY DEF LoadBefore, LoadField, LoadAfter, Reads
  <1>2. /\ UNCHANGED <<sequence, cell, timeline, callback, published>>
        /\ reader'[r] = record
        /\ \A q \in Readers \ {r} : reader'[q] = reader[q]
    BY <1>0, <1>1 DEF Reads, clock
  <1>3. /\ reader'[r] \in ReaderRecords
        /\ ReaderInv(r)'
        /\ reader'[r].latest # reader[r].latest =>
             reader'[r].latest \in published /\ NotAfter(reader[r].latest, reader'[r].latest)
    <2> DEFINE old == reader[r]
               new == reader'[r]
    <2>0. old \in ReaderRecords /\ old.sample \in Samples /\ old.latest \in Samples
          /\ old.field \in 1 .. 4 /\ old.before \in Int /\ old.at \in {"Idle", "Fields"}
      BY <1>0 DEF ReaderRecords
    <2>1. CASE LoadBefore(r)
      <3>1. /\ new = [old EXCEPT !.at = "Fields", !.before = sequence, !.field = 1]
            /\ sequence % 2 = 0
        BY <1>0, <2>1 DEF LoadBefore, Reads
      <3> HIDE DEF old, new
      <3>2. /\ new \in ReaderRecords
            /\ new.at = "Fields" /\ new.before = sequence /\ new.field = 1
            /\ new.sample = old.sample /\ new.latest = old.latest
        <4> DEFINE at == "Fields"
                   one == 1
        <4>1. /\ sequence \in Int /\ at \in {"Idle", "Fields"} /\ one \in 1 .. 4
              /\ new = [old EXCEPT !.at = at, !.before = sequence, !.field = one]
          BY <1>0, <3>1
        <4> HIDE DEF at, one
        <4>2. /\ new \in ReaderRecords
              /\ new.at = at /\ new.before = sequence /\ new.field = one
              /\ new.sample = old.sample /\ new.latest = old.latest
          BY <2>0, <4>1 DEF ReaderRecords
        <4> QED
          BY <4>2 DEF at, one
      <3>3. new \in ReaderRecords
        BY <3>2
      <3>4. Agree(new.sample, cell, new.field - 1)
        BY <3>2, NoneAgree
      <3>5. old.latest \in published /\ sequence <= sequence
        BY <1>0 DEF ReaderInv, old
      <3>6. /\ new.latest = old.latest /\ new.before = sequence
        BY <3>2
      <3>7. ReaderInv(r)'
        BY <1>2, <3>1, <3>4, <3>5, <3>6 DEF ReaderInv, new
      <3> QED
        BY <3>3, <3>6, <3>7 DEF old, new
    <2>2. CASE LoadField(r)
      <3> DEFINE sample == [old.sample EXCEPT ![Fields[old.field]] = cell[Fields[old.field]]]
      <3>1. /\ old.at = "Fields" /\ old.field \in 1 .. 3
            /\ new = [old EXCEPT
                 !.sample[Fields[old.field]] = cell[Fields[old.field]], !.field = @ + 1]
        BY <1>0, <2>0, <2>2 DEF LoadField, Reads, FieldCount
      <3>2. new = [old EXCEPT !.sample = sample, !.field = old.field + 1]
        BY <3>1
      <3>3. /\ sample \in Samples
            /\ Agree(old.sample, cell, old.field - 1) => Agree(sample, cell, old.field)
        BY <1>0, <2>0, <3>1, AgreeNext
      <3> HIDE DEF old, new, sample
      <3>4. old.field + 1 \in 1 .. 4
        BY <3>1
      <3>5. /\ new \in ReaderRecords
            /\ new.latest = old.latest /\ new.before = old.before
            /\ new.sample = sample /\ new.field = old.field + 1
        <4> DEFINE next == old.field + 1
        <4> HIDE DEF next
        <4>1. new = [old EXCEPT !.sample = sample, !.field = next] /\ next \in 1 .. 4
          BY <3>2, <3>4 DEF next
        <4>2. /\ new \in ReaderRecords
              /\ new.latest = old.latest /\ new.before = old.before
              /\ new.sample = sample /\ new.field = next
          BY <2>0, <3>3, <4>1 DEF ReaderRecords
        <4> QED
          BY <4>2 DEF next
      <3>6. new.field - 1 = old.field
        BY <3>1, <3>5
      <3>7. ReaderInv(r)'
        BY <1>0, <1>2, <3>1, <3>3, <3>5, <3>6 DEF ReaderInv, old, new
      <3> QED
        BY <3>5, <3>6, <3>7 DEF old, new
    <2>3. CASE LoadAfter(r)
      <3> DEFINE latest == IF StillThat(r) THEN old.sample ELSE old.latest
      <3>1. /\ old.at = "Fields" /\ old.field = 4
            /\ new = [old EXCEPT !.at = "Idle", !.sample = NoSample,
                 !.before = 0, !.field = 1, !.latest = latest]
        BY <1>0, <2>0, <2>3 DEF LoadAfter, Reads, FieldCount
      <3>2. latest \in Samples /\ NoSample \in Samples
        BY <2>0 DEF NoSample, Sample, Samples
      <3>3. latest # old.latest => StillThat(r) /\ latest = old.sample
        OBVIOUS
      <3> HIDE DEF old, new, latest
      <3>5. new \in ReaderRecords /\ new.at = "Idle" /\ new.latest = latest
        <4> DEFINE at == "Idle"
                   zero == 0
                   one == 1
                   none == NoSample
        <4>1. /\ new = [old EXCEPT !.at = at, !.sample = none, !.before = zero,
                                   !.field = one, !.latest = latest]
              /\ at \in {"Idle", "Fields"} /\ zero \in Int /\ one \in 1 .. 4
              /\ none \in Samples
          BY <3>1, <3>2
        <4> HIDE DEF at, zero, one, none
        <4>2. new \in ReaderRecords /\ new.at = at /\ new.latest = latest
          BY <2>0, <3>2, <4>1 DEF ReaderRecords
        <4> QED
          BY <4>2 DEF at
      <3>6. ASSUME StillThat(r)
            PROVE  old.sample \in published /\ NotAfter(old.latest, old.sample)
        <4>1. sequence % 2 = 0 /\ Agree(old.sample, cell, 3)
          BY <1>0, <3>1, <3>6 DEF ReaderInv, StillThat, old
        <4>2. old.sample = cell
          BY <1>0, <2>0, <4>1, AgreeWhole
        <4>3. cell \in published /\ \A p \in published : NotAfter(p, cell)
          BY <4>1 DEF ClockInv, WriterInv
        <4> QED
          BY <1>0, <4>2, <4>3 DEF ReaderInv, old
      <3>7. old.latest \in published
        BY <1>0 DEF ReaderInv, old
      <3>8. ReaderInv(r)'
        BY <1>2, <3>3, <3>5, <3>6, <3>7 DEF ReaderInv, new
      <3> QED
        BY <3>3, <3>5, <3>6, <3>8 DEF old, new
    <2> QED
      BY <2>1, <2>2, <2>3
  <1>4. reader' \in [Readers -> ReaderRecords]
    BY <1>0, <1>1, <1>2, <1>3
  <1>5. \A q \in Readers : ReaderInv(q)'
    BY <1>2, <1>3 DEF ClockInv, ReaderInv
  <1> QED
    BY <1>2, <1>3, <1>4, <1>5 DEF ClockInv, ClockType, WriterInv, ReaderGoesOn

LEMMA ClockKeeps ==
  ASSUME ClockInv, PortInv, PortChange
  PROVE  ClockInv' /\ ReaderGoesOn
  <1>1. CASE PortStep
    <2>1. CASE StoreMissing \/ CountUnderrun \/ RaiseUnderrun
      <3>1. PICK from \in {"Missing", "Sequence", "Pending"}, to \in {"Sequence", "Pending", "Clock"} :
              /\ callback.at = from /\ callback' = [callback EXCEPT !.at = to]
              /\ UNCHANGED <<clock, reader, published>>
        BY <2>1 DEF StoreMissing, CountUnderrun, RaiseUnderrun, Publishes
      <3>2. /\ callback'.at = to /\ callback'.field = callback.field
            /\ {callback.at, callback'.at} \cap {"Fields", "Idle"} = {}
        BY <3>1 DEF PortInv, PortType
      <3> QED
        BY <3>1, <3>2, ClockStands DEF clock, ReaderGoesOn
    <2>2. CASE BeginClock \/ StoreField \/ EndClock
      BY <2>2, PublicationKeeps DEF ReaderGoesOn
    <2>3. CASE \E r \in Readers : LoadBefore(r) \/ LoadField(r) \/ LoadAfter(r)
      BY <2>3, ReadKeeps
    <2>4. CASE CoordinatorStep \/ Recover \/ Boundary \/ Ready
      <3>1. UNCHANGED <<sequence, cell, timeline, callback, reader, published>>
        BY <2>4 DEF CoordinatorStep, TakeUnderrun, LoadSequence, RecordTaken, Recover,
           Boundary, Ready, Bounds, Coordinates, clock
      <3> QED
        BY <3>1, ClockStands DEF ReaderGoesOn
    <2> QED
      BY <1>1, <2>1, <2>2, <2>3, <2>4 DEF PortStep, CallbackStep
  <1>2. CASE (\E requested, copied \in Nat : Render(requested, copied)) \/ ResetTimeline
    BY <1>2, TimelineGoesOn DEF ReaderGoesOn
  <1>3. CASE UNCHANGED portVars
    BY <1>3, ClockStands DEF portVars, ReaderGoesOn
  <1> QED
    BY <1>1, <1>2, <1>3 DEF PortChange

\* What a reader of the compact clock is given was published whole, and is never
\* earlier than what it had, for any number of readers and renders and however
\* their single loads and stores interleave (realtime.rs:70).
THEOREM ClockStaysCoherent == EngineSpec => ClockIsCoherent
  <1>1. Init => ClockInv
    BY ClockInit DEF Init, DeviceInit
  <1>2. ClockInv /\ DeviceInv /\ [Next]_engineVars => ClockInv' /\ ReaderGoesOn
    <2> SUFFICES ASSUME ClockInv, DeviceInv, [Next]_engineVars
                 PROVE  ClockInv' /\ ReaderGoesOn
      OBVIOUS
    <2>1. CASE DeviceNext
      BY <2>1, ClockKeeps, DeviceIsPortChange DEF DeviceInv
    <2>2. CASE UNCHANGED deviceVars
      BY <2>2, ClockKeeps DEF DeviceInv, deviceVars, PortChange
    <2> QED
      BY <2>1, <2>2 DEF Next, engineVars
  <1>3. ClockInv /\ ReaderGoesOn =>
          [\A r \in Readers : LET old == reader[r].latest
                                  new == reader'[r].latest IN
             new # old =>
               /\ new \in published
               /\ \/ new.epoch > old.epoch
                  \/ /\ new.epoch = old.epoch
                     /\ new.rendered >= old.rendered /\ new.media >= old.media]_portVars
    <2> SUFFICES ASSUME ClockInv, ReaderGoesOn, NEW r \in Readers,
                        reader'[r].latest # reader[r].latest
                 PROVE  LET old == reader[r].latest
                            new == reader'[r].latest IN
                        /\ new \in published
                        /\ \/ new.epoch > old.epoch
                           \/ /\ new.epoch = old.epoch
                              /\ new.rendered >= old.rendered /\ new.media >= old.media
      OBVIOUS
    <2>1. /\ reader'[r].latest \in published
          /\ NotAfter(reader[r].latest, reader'[r].latest)
      BY DEF ReaderGoesOn
    <2>2. reader'[r].latest \in Samples /\ reader[r].latest \in Samples
      BY <2>1 DEF ClockInv, ClockType, ReaderInv
    <2> HIDE DEF ClockInv
    <2> QED
      BY <2>1, <2>2 DEF NotAfter, Samples
  <1> QED
    BY <1>1, <1>2, <1>3, DeviceInvHolds, PTL DEF EngineSpec, ClockIsCoherent

(***************************************************************************)
(* Codecs.                                                                 *)
(***************************************************************************)
CodecRecords ==
  [kind : Kinds, open : BOOLEAN, packet : Nat, skip : Nat,
   pending : [from : Int, to : Int], emitted : Int, eof : BOOLEAN,
   cancelled : BOOLEAN, closed : BOOLEAN]

\* The playable frame an open stream is at, behind what it still skips.
Reach(c) == c.packet * PacketFrames + c.skip - Lead(c.kind)

\* What an open stream owes: all that is left of a packet is in front of the
\* reader, and the last packet has been read before the stream has ended.
OpenInv(c) ==
  /\ Reach(c) >= 0
  /\ Remaining(c) > 0 =>
       /\ c.skip = 0
       /\ c.pending.from >= 0
       /\ c.pending.to = Lower(Frames, Reach(c))
  /\ c.eof => c.packet = Packets(c.kind)
  /\ c.kind = "Symphonia" /\ c.eof => Remaining(c) = 0
  /\ c.kind = "Opus" => /\ c.emitted = Position(c)
                        /\ c.skip > 0 => Reach(c) = 0

CodecInv(c) ==
  /\ c \in CodecRecords
  /\ c.packet <= Packets(c.kind)
  /\ Remaining(c) >= 0
  /\ IF c.open THEN OpenInv(c)
     ELSE Remaining(c) = 0 /\ ~c.eof /\ c.emitted = 0

\* The packets of a stream cover its frames, and the last is needed.
LEMMA PacketsCover ==
  ASSUME NEW kind \in Kinds
  PROVE  /\ Lead(kind) \in Nat
         /\ Packets(kind) \in Nat \ {0}
         /\ Packets(kind) * PacketFrames \in Nat
         /\ Packets(kind) * PacketFrames >= Frames + Lead(kind)
         /\ Packets(kind) * PacketFrames < Frames + Lead(kind) + PacketFrames
  <1> DEFINE L == Lead(kind)
             m == Frames + L + PacketFrames - 1
  <1>1. L \in Nat
    BY StreamAssumption DEF Lead
  <1>2. m \in Nat /\ m >= PacketFrames /\ Packets(kind) = m \div PacketFrames
    BY <1>1, StreamAssumption DEF Packets
  <1> HIDE DEF m
  <1>3. /\ m \div PacketFrames \in Nat
        /\ (m \div PacketFrames) * PacketFrames <= m
        /\ m < (m \div PacketFrames) * PacketFrames + PacketFrames
    BY <1>2, StreamAssumption
  <1>4. m \div PacketFrames # 0
    BY <1>2, <1>3, StreamAssumption
  <1>5. (m \div PacketFrames) * PacketFrames \in Nat
    BY <1>3, StreamAssumption
  <1> QED
    BY <1>1, <1>2, <1>3, <1>4, <1>5, StreamAssumption DEF m

LEMMA PacketStarts ==
  ASSUME NEW k \in Nat
  PROVE  /\ k * PacketFrames \in Nat
         /\ (k + 1) * PacketFrames = k * PacketFrames + PacketFrames
  BY StreamAssumption

\* A packet that is not the last ends before the frames do.
LEMMA PacketsBefore ==
  ASSUME NEW kind \in Kinds, NEW k \in Nat, k < Packets(kind)
  PROVE  k * PacketFrames < Frames + Lead(kind)
  <1> DEFINE N == Packets(kind)
  <1>1. N \in Nat /\ k + 1 <= N
    BY PacketsCover
  <1> HIDE DEF N
  <1>2. (k + 1) * PacketFrames <= N * PacketFrames
    BY <1>1, StreamAssumption
  <1> QED
    BY <1>1, <1>2, PacketsCover, PacketStarts, StreamAssumption DEF N

LEMMA NewCodecInv ==
  ASSUME NEW kind \in Kinds
  PROVE  LET d == NewCodec(kind) IN
           CodecInv(d) /\ ~d.open /\ d.kind = kind /\ Position(d) = 0
  BY PacketsCover DEF NewCodec, CodecInv, CodecRecords, Remaining, Position

LEMMA OpenedInv ==
  ASSUME NEW c, CodecInv(c), ~c.open
  PROVE  LET d == Opened(c) IN CodecInv(d) /\ d.open /\ Position(d) = 0
  <1> DEFINE L == Lead(c.kind)
             d == Opened(c)
             zero == 0
             e == [c EXCEPT !.open = TRUE, !.packet = zero, !.skip = L]
  <1>1. L \in Nat /\ Packets(c.kind) \in Nat
    BY PacketsCover DEF CodecInv, CodecRecords
  <1>2. zero \in Nat /\ d = e
    BY DEF Opened
  <1> HIDE DEF L, zero
  <1>3. /\ e \in CodecRecords /\ e.open /\ e.packet = zero /\ e.skip = L
        /\ e.kind = c.kind /\ e.pending = c.pending /\ e.emitted = c.emitted
        /\ e.eof = c.eof
    BY <1>1, <1>2 DEF CodecInv, CodecRecords
  <1> HIDE DEF e, d
  <1>4. d \in CodecRecords /\ Remaining(d) = 0 /\ ~d.eof /\ d.emitted = 0
    BY <1>2, <1>3 DEF CodecInv, Remaining
  <1>5. Reach(d) = 0
    BY <1>1, <1>2, <1>3, StreamAssumption DEF Reach, L, zero
  <1>6. Position(d) = 0
    BY <1>2, <1>3, <1>4, <1>5, StreamAssumption DEF Position, Reach, Lower
  <1>7. d.packet <= Packets(d.kind)
    BY <1>1, <1>2, <1>3 DEF zero
  <1> QED
    BY <1>2, <1>3, <1>4, <1>5, <1>6, <1>7 DEF CodecInv, OpenInv, d

\* Delivering some of what is pending moves the position by as much.
LEMMA CopyPendingInv ==
  ASSUME NEW c, CodecInv(c), c.open, Remaining(c) > 0, NEW room \in Nat \ {0}
  PROVE  LET d == CopyPending(c, room)
             count == Lower(Remaining(c), room)
         IN /\ CodecInv(d) /\ d.open
            /\ count \in 1 .. room
            /\ Position(c) = c.pending.from
            /\ Position(d) = c.pending.from + count
  <1> DEFINE count == Lower(Remaining(c), room)
             d == CopyPending(c, room)
             P == PacketFrames
  <1>1. /\ c \in CodecRecords /\ c.pending \in [from : Int, to : Int]
        /\ Remaining(c) \in Int
    BY DEF CodecInv, CodecRecords, Remaining
  <1>2. count \in 1 .. room /\ count <= Remaining(c)
    BY <1>1 DEF Lower
  <1>3. d = [c EXCEPT !.pending.from = @ + count, !.emitted = @ + count]
    BY DEF CopyPending
  <1> HIDE DEF count, d
  <1>4. /\ d \in CodecRecords /\ d.open = c.open /\ d.packet = c.packet
        /\ d.skip = c.skip /\ d.kind = c.kind /\ d.eof = c.eof
        /\ d.emitted = c.emitted + count
        /\ d.pending.from = c.pending.from + count
        /\ d.pending.to = c.pending.to
    <2> DEFINE part == [c.pending EXCEPT !.from = @ + count]
               moved == c.emitted + count
    <2>1. /\ part \in [from : Int, to : Int] /\ part.to = c.pending.to
          /\ part.from = c.pending.from + count
      BY <1>1, <1>2
    <2>2. moved \in Int
      BY <1>1, <1>2 DEF CodecRecords
    <2>3. d = [c EXCEPT !.pending = part, !.emitted = moved]
      BY <1>1, <1>3 DEF CodecRecords
    <2> HIDE DEF part
    <2>4. /\ d \in CodecRecords /\ d.open = c.open /\ d.packet = c.packet
          /\ d.skip = c.skip /\ d.kind = c.kind /\ d.eof = c.eof
          /\ d.emitted = moved /\ d.pending = part
      <3> HIDE DEF moved
      <3> QED
        BY <1>1, <2>1, <2>2, <2>3 DEF CodecRecords
    <2> QED
      BY <2>1, <2>4
  <1>5. Reach(d) = Reach(c) /\ Reach(c) \in Int
    BY <1>4, <1>1, PacketsCover, PacketStarts DEF Reach, CodecRecords
  <1>6. Position(c) = c.pending.from
    BY DEF Position
  <1>7. Position(d) = c.pending.from + count
    <2>1. CASE Remaining(d) > 0
      BY <2>1, <1>4 DEF Position
    <2>2. CASE ~(Remaining(d) > 0)
      <3>1. c.pending.from + count = c.pending.to
        BY <2>2, <1>1, <1>2, <1>4 DEF Remaining
      <3>2. Position(d) = Lower(Frames, Reach(d))
        BY <2>2, <1>4 DEF Position, Reach
      <3> QED
        BY <3>1, <3>2, <1>5 DEF CodecInv, OpenInv
    <2> QED
      BY <2>1, <2>2
  <1>8. Remaining(d) = Remaining(c) - count
    BY <1>1, <1>2, <1>4 DEF Remaining
  <1>9. d.packet <= Packets(d.kind) /\ Remaining(d) >= 0
    BY <1>1, <1>2, <1>4, <1>8 DEF CodecInv
  <1>10. OpenInv(d)
    BY <1>1, <1>2, <1>4, <1>5, <1>6, <1>7, <1>8 DEF CodecInv, OpenInv
  <1>11. CodecInv(d) /\ d.open
    BY <1>4, <1>9, <1>10 DEF CodecInv
  <1> QED
    BY <1>2, <1>6, <1>7, <1>11 DEF count, d

LEMMA SymphoniaPacketInv ==
  ASSUME NEW c, CodecInv(c), c.open, c.kind = "Symphonia", Remaining(c) = 0, ~c.eof
  PROVE  LET d == SymphoniaPacket(c) IN
           CodecInv(d) /\ d.open /\ Position(d) = Position(c)
  <1> DEFINE first == c.packet * PacketFrames
             last == Lower(first + PacketFrames, Frames)
             drop == Lower(c.skip, last - first)
             d == SymphoniaPacket(c)
             N == Packets(c.kind)
  <1>0. /\ c \in CodecRecords /\ c.kind \in Kinds /\ c.packet \in Nat
        /\ c.skip \in Nat /\ c.packet <= N /\ Lead(c.kind) = 0
    BY DEF CodecInv, CodecRecords, Lead
  <1>1. /\ N \in Nat \ {0} /\ N * PacketFrames >= Frames
        /\ first \in Nat /\ Reach(c) = first + c.skip
        /\ (c.packet + 1) * PacketFrames = first + PacketFrames
    <2>1. N \in Nat \ {0} /\ N * PacketFrames >= Frames
      BY <1>0, PacketsCover, StreamAssumption
    <2>2. first \in Nat /\ (c.packet + 1) * PacketFrames = first + PacketFrames
      BY <1>0, PacketStarts
    <2> QED
      BY <1>0, <2>1, <2>2 DEF Reach
  <1>2. Position(c) = Lower(Frames, first + c.skip)
    BY <1>1 DEF Position, Reach
  <1> HIDE DEF N
  <1>3. CASE c.packet = N
    <2> DEFINE true == TRUE
               e == [c EXCEPT !.eof = true]
    <2>1. d = e
      BY <1>3 DEF SymphoniaPacket, N
    <2>2. /\ e \in CodecRecords /\ e.open = c.open /\ e.packet = c.packet
          /\ e.skip = c.skip /\ e.kind = c.kind /\ e.pending = c.pending
      BY <1>0 DEF CodecRecords
    <2> HIDE DEF e, d
    <2>3. Remaining(d) = 0 /\ Reach(d) = Reach(c) /\ Position(d) = Position(c)
      BY <2>1, <2>2 DEF Remaining, Reach, Position
    <2>4. CodecInv(d) /\ d.open
      BY <1>0, <1>1, <1>3, <2>1, <2>2, <2>3 DEF CodecInv, OpenInv, N
    <2> QED
      BY <2>3, <2>4 DEF d
  <1>4. CASE c.packet # N
    <2> DEFINE next == c.packet + 1
               skip == c.skip - drop
               from == first + drop
               e == [c EXCEPT !.packet = next, !.skip = skip,
                              !.pending = [from |-> from, to |-> last]]
    <2>1. d = e
      BY <1>4 DEF SymphoniaPacket, N
    <2>2. c.packet < N /\ first < Frames
      <3>1. c.packet < N
        BY <1>0, <1>1, <1>4
      <3> QED
        BY <1>0, <3>1, PacketsBefore, StreamAssumption DEF N
    <2> HIDE DEF first
    <2>3. /\ last \in Nat /\ last - first \in Nat \ {0}
          /\ drop \in 0 .. (last - first) /\ drop <= c.skip
      BY <1>0, <1>1, <2>2, StreamAssumption DEF Lower
    <2>4. next \in Nat /\ skip \in Nat /\ from \in Nat
      BY <1>0, <1>1, <2>3
    <2> HIDE DEF next, skip, from, last
    <2>5. /\ e \in CodecRecords /\ e.open = c.open /\ e.packet = next
          /\ e.skip = skip /\ e.kind = c.kind /\ e.eof = c.eof
          /\ e.pending.from = from /\ e.pending.to = last
      <3> DEFINE part == [from |-> from, to |-> last]
      <3>1. part \in [from : Int, to : Int] /\ part.from = from /\ part.to = last
        BY <2>3, <2>4
      <3> HIDE DEF part
      <3> QED
        BY <1>0, <2>4, <3>1 DEF CodecRecords
    <2> HIDE DEF e, d
    <2>6. Remaining(d) = last - from /\ Reach(d) = first + PacketFrames + skip
      BY <1>0, <1>1, <2>1, <2>3, <2>4, <2>5, StreamAssumption DEF Remaining, Reach, next
    <2>7. /\ Remaining(d) >= 0
          /\ Remaining(d) > 0 => skip = 0 /\ from = first + c.skip
          /\ Remaining(d) = 0 => from = last
      BY <1>0, <1>1, <2>3, <2>4, <2>6 DEF Lower, skip, from
    <2>8. last = Lower(Frames, first + PacketFrames)
      BY <1>1, StreamAssumption DEF last, Lower
    <2> HIDE DEF drop
    <2>9. Position(d) = Position(c)
      <3>1. CASE Remaining(d) > 0
        <4>1. Position(d) = from /\ from = first + c.skip /\ from < last
          BY <3>1, <2>1, <2>3, <2>4, <2>5, <2>6, <2>7 DEF Position
        <4> QED
          BY <4>1, <1>0, <1>1, <1>2, <2>3, <2>8, StreamAssumption DEF Lower
      <3>2. CASE Remaining(d) = 0
        <4>1. Position(d) = Lower(Frames, Reach(d))
          BY <3>2, <1>1, <2>1, <2>5 DEF Position, Reach
        <4>2. drop = last - first /\ skip = c.skip - drop
          BY <3>2, <2>7, <2>3, <1>1 DEF from, skip
        <4> QED
          BY <4>1, <4>2, <1>0, <1>1, <1>2, <2>3, <2>6, <2>8, StreamAssumption DEF Lower
      <3> QED
        BY <3>1, <3>2, <2>3, <2>4, <2>6, <2>7
    <2>10. CodecInv(d) /\ d.open
      <3>1. d.packet <= Packets(d.kind)
        BY <1>0, <1>1, <2>1, <2>2, <2>5 DEF next, N
      <3>2. d.kind = "Symphonia" /\ ~d.eof
        BY <2>1, <2>5
      <3>3. Remaining(d) > 0 => last = Lower(Frames, Reach(d))
        BY <2>6, <2>7, <2>8, <1>1, StreamAssumption
      <3>4. Reach(d) >= 0
        BY <1>1, <2>4, <2>6, StreamAssumption
      <3> QED
        BY <2>1, <2>4, <2>5, <2>7, <3>1, <3>2, <3>3, <3>4 DEF CodecInv, OpenInv
    <2> QED
      BY <2>9, <2>10 DEF d
  <1> QED
    BY <1>3, <1>4

LEMMA OpusPacketInv ==
  ASSUME NEW c, CodecInv(c), c.open, c.kind = "Opus", Remaining(c) = 0, ~c.eof
  PROVE  LET d == OpusPacket(c) IN
           CodecInv(d) /\ d.open /\ Position(d) = Position(c)
  <1> DEFINE first == c.packet * PacketFrames - PreSkip
             drop == Lower(c.skip, PacketFrames)
             N == Packets(c.kind)
             last == c.packet + 1 = N
             keep == IF last
                     THEN Lower(PacketFrames - drop, Higher(Frames - c.emitted, 0))
                     ELSE PacketFrames - drop
             d == OpusPacket(c)
  <1>0. /\ c \in CodecRecords /\ c.kind \in Kinds /\ c.packet \in Nat
        /\ c.skip \in Nat /\ c.packet <= N /\ Lead(c.kind) = PreSkip
        /\ c.emitted \in Int
    BY DEF CodecInv, CodecRecords, Lead
  <1>1. /\ N \in Nat \ {0} /\ N * PacketFrames >= Frames + PreSkip
        /\ first \in Int /\ Reach(c) = first + c.skip
        /\ (c.packet + 1) * PacketFrames = first + PacketFrames + PreSkip
    <2>1. N \in Nat \ {0} /\ N * PacketFrames >= Frames + PreSkip
      BY <1>0, PacketsCover
    <2>2. /\ c.packet * PacketFrames \in Nat
          /\ (c.packet + 1) * PacketFrames = c.packet * PacketFrames + PacketFrames
      BY <1>0, PacketStarts
    <2> QED
      BY <1>0, <2>1, <2>2, StreamAssumption DEF Reach
  <1>2. Position(c) = Lower(Frames, first + c.skip)
    BY <1>1 DEF Position, Reach
  <1>3. CASE c.packet = N
    <2> DEFINE true == TRUE
               e == [c EXCEPT !.eof = true]
    <2>1. d = e
      BY <1>3 DEF OpusPacket
    <2>2. /\ e \in CodecRecords /\ e.open = c.open /\ e.packet = c.packet
          /\ e.skip = c.skip /\ e.kind = c.kind /\ e.pending = c.pending
          /\ e.emitted = c.emitted
      BY <1>0 DEF CodecRecords
    <2> HIDE DEF e, d
    <2>3. Remaining(d) = 0 /\ Reach(d) = Reach(c) /\ Position(d) = Position(c)
      BY <2>1, <2>2 DEF Remaining, Reach, Position
    <2>4. CodecInv(d) /\ d.open
      BY <1>0, <1>1, <1>3, <2>1, <2>2, <2>3 DEF CodecInv, OpenInv
    <2> QED
      BY <2>3, <2>4 DEF d
  <1>4. CASE c.packet # N
    <2> DEFINE next == c.packet + 1
               skip == c.skip - drop
               from == first + drop
               to == first + drop + keep
               e == [c EXCEPT !.packet = next, !.skip = skip, !.eof = last,
                              !.pending = [from |-> from, to |-> to]]
    <2>1. d = e
      BY <1>4 DEF OpusPacket
    <2>2. c.packet < N /\ first < Frames
      <3>1. c.packet < N
        BY <1>0, <1>1, <1>4
      <3> QED
        BY <1>0, <1>1, <3>1, PacketsBefore, StreamAssumption
    <2>3. /\ ~last => first + PacketFrames < Frames
          /\ last => first + PacketFrames >= Frames
      <3>1. CASE last
        BY <3>1, <1>0, <1>1, StreamAssumption
      <3>2. CASE ~last
        <4>1. c.packet + 1 < N
          BY <3>2, <1>0, <1>1, <2>2
        <4>2. (c.packet + 1) * PacketFrames < Frames + Lead(c.kind)
          BY <4>1, <1>0, PacketsBefore
        <4> QED
          BY <3>2, <4>2, <1>0, <1>1, StreamAssumption
      <3> QED
        BY <3>1, <3>2
    <2>4. /\ first + c.skip >= 0
          /\ c.skip > 0 => first + c.skip = 0
          /\ c.emitted = Lower(Frames, first + c.skip)
      BY <1>0, <1>1, <1>2 DEF CodecInv, OpenInv
    <2> DEFINE ends == last
    <2>5. ends \in BOOLEAN /\ next \in Nat /\ next <= N /\ (ends => next = N)
      BY <1>0, <1>1, <2>2
    <2> HIDE DEF first, N
    <2>6. drop \in Nat /\ drop <= c.skip /\ drop <= PacketFrames
      BY <1>0, StreamAssumption DEF Lower
    <2>9. /\ keep \in Nat /\ from \in Int /\ to = from + keep
          /\ keep = 0 => drop = PacketFrames
          /\ keep > 0 => /\ skip = 0 /\ from = c.emitted /\ c.emitted >= 0
                         /\ to = Lower(Frames, first + PacketFrames)
      <3>1. CASE c.skip < PacketFrames
        <4>1. drop = c.skip /\ c.emitted = first + drop
          BY <3>1, <1>0, <1>1, <2>2, <2>4, StreamAssumption DEF Lower
        <4>2. /\ keep \in Nat \ {0}
              /\ to = Lower(Frames, first + PacketFrames)
          <5>1. CASE last
            <6>1. Frames - c.emitted > 0 /\ PacketFrames - drop > 0
              BY <4>1, <3>1, <1>0, <1>1, <2>2, <2>4, StreamAssumption DEF Lower
            <6>2. keep = Lower(PacketFrames - drop, Frames - c.emitted)
              BY <5>1, <6>1, <1>0, StreamAssumption DEF Higher
            <6> QED
              BY <4>1, <5>1, <6>1, <6>2, <1>0, <1>1, <2>3, <2>6, StreamAssumption
                 DEF Lower
          <5>2. CASE ~last
            <6>1. keep = PacketFrames - drop
              BY <5>2
            <6> QED
              BY <4>1, <5>2, <6>1, <3>1, <1>0, <1>1, <2>3, StreamAssumption DEF Lower
          <5> QED
            BY <5>1, <5>2
        <4>3. skip = 0 /\ from = c.emitted /\ c.emitted >= 0
          BY <4>1, <1>0, <2>4, StreamAssumption DEF Lower
        <4> QED
          BY <4>1, <4>2, <4>3, <1>0, <1>1, <2>6
      <3>2. CASE ~(c.skip < PacketFrames)
        <4>1. drop = PacketFrames
          BY <3>2, <1>0, StreamAssumption DEF Lower
        <4>2. keep = 0
          BY <4>1, <1>0, StreamAssumption DEF Lower, Higher
        <4> QED
          BY <4>1, <4>2, <1>1, StreamAssumption
      <3> QED
        BY <3>1, <3>2
    <2>10. skip \in Nat /\ from \in Int /\ to \in Int
      BY <1>0, <1>1, <2>6, <2>9
    <2>11. d = [c EXCEPT !.packet = next, !.skip = skip, !.eof = ends,
                         !.pending = [from |-> from, to |-> to]]
      BY <2>1
    <2> HIDE DEF next, skip, from, to, ends, keep, e, d
    <2>12. /\ d \in CodecRecords /\ d.open = c.open /\ d.packet = next
           /\ d.skip = skip /\ d.kind = c.kind /\ d.eof = ends
           /\ d.pending.from = from /\ d.pending.to = to /\ d.emitted = c.emitted
      <3> DEFINE part == [from |-> from, to |-> to]
      <3>1. part \in [from : Int, to : Int] /\ part.from = from /\ part.to = to
        BY <2>10
      <3> HIDE DEF part
      <3> QED
        BY <1>0, <2>5, <2>10, <2>11, <3>1 DEF CodecRecords, part
    <2>13. Remaining(d) = keep /\ Reach(d) = first + PacketFrames + skip
      <3>1. Remaining(d) = keep
        BY <2>9, <2>12 DEF Remaining
      <3>2. d.packet * PacketFrames = first + PacketFrames + PreSkip
        BY <1>1, <2>12 DEF next
      <3> QED
        BY <3>1, <3>2, <1>0, <1>1, <2>10, <2>12, StreamAssumption DEF Reach
    <2> HIDE DEF drop
    <2>14. Position(d) = c.emitted
      <3>1. CASE keep > 0
        BY <3>1, <2>9, <2>12, <2>13 DEF Position
      <3>2. CASE keep = 0
        <4>1. Position(d) = Lower(Frames, Reach(d))
          BY <3>2, <2>12, <2>13 DEF Position, Reach
        <4>2. Reach(d) = first + c.skip
          BY <3>2, <1>0, <1>1, <2>6, <2>9, <2>13, StreamAssumption DEF skip
        <4> QED
          BY <4>1, <4>2, <2>4
      <3> QED
        BY <3>1, <3>2, <2>9
    <2>15. Position(d) = Position(c)
      BY <2>14, <1>0, <1>2, <2>4
    <2>16. Reach(d) >= 0 /\ (d.skip > 0 => Reach(d) = 0)
      <3>1. CASE keep > 0
        <4>1. skip = 0 /\ to = Lower(Frames, first + PacketFrames) /\ to > 0
          BY <3>1, <2>9
        <4> QED
          BY <4>1, <1>1, <2>12, <2>13, StreamAssumption DEF Lower
      <3>2. CASE keep = 0
        <4>1. Reach(d) = first + c.skip
          BY <3>2, <1>0, <1>1, <2>6, <2>9, <2>13, StreamAssumption DEF skip
        <4> QED
          BY <4>1, <1>0, <2>4, <2>6, <2>12 DEF skip
      <3> QED
        BY <3>1, <3>2, <2>9
    <2>17. Remaining(d) > 0 =>
             d.skip = 0 /\ d.pending.from >= 0 /\ d.pending.to = Lower(Frames, Reach(d))
      BY <1>1, <2>9, <2>12, <2>13, StreamAssumption
    <2>18. CodecInv(d) /\ d.open
      <3>1. d.packet <= Packets(d.kind) /\ (d.eof => d.packet = Packets(d.kind))
        BY <2>5, <2>12 DEF N
      <3>2. Remaining(d) >= 0 /\ d.kind = "Opus" /\ d.emitted = Position(d)
        BY <2>9, <2>12, <2>13, <2>14
      <3> QED
        BY <2>12, <2>16, <2>17, <3>1, <3>2 DEF CodecInv, OpenInv
    <2> QED
      BY <2>15, <2>18 DEF d
  <1> QED
    BY <1>3, <1>4

LEMMA SymphoniaSeeksInv ==
  ASSUME NEW c, CodecInv(c), c.open, c.kind = "Symphonia",
         NEW target \in 0 .. Frames, NEW d \in SymphoniaSeeks(c, target)
  PROVE  CodecInv(d) /\ d.open /\ Position(d) = target
  <1>1. PICK k \in {k \in 0 .. Packets(c.kind) : target <= Frames
                                                 /\ k * PacketFrames <= target} :
          d = [c EXCEPT !.packet = k, !.skip = target - k * PacketFrames, !.eof = FALSE,
                        !.pending = [from |-> 0, to |-> 0]]
    BY DEF SymphoniaSeeks
  <1> DEFINE start == k * PacketFrames
             skip == target - start
             no == FALSE
             zero == 0
             part == [from |-> zero, to |-> zero]
  <1>2. /\ c \in CodecRecords /\ c.kind \in Kinds /\ Lead(c.kind) = 0
        /\ Packets(c.kind) \in Nat
    BY PacketsCover DEF CodecInv, CodecRecords, Lead
  <1>3. k \in Nat /\ k <= Packets(c.kind) /\ start <= target /\ start \in Nat
    BY <1>1, <1>2, PacketStarts
  <1> HIDE DEF start
  <1>4. skip \in Nat /\ no \in BOOLEAN
    BY <1>3, StreamAssumption
  <1>5. part \in [from : Int, to : Int] /\ part.from = 0 /\ part.to = 0
    OBVIOUS
  <1>6. d = [c EXCEPT !.packet = k, !.skip = skip, !.eof = no, !.pending = part]
    BY <1>1 DEF start
  <1> HIDE DEF skip, no, part
  <1>7. /\ d \in CodecRecords /\ d.open = c.open /\ d.packet = k /\ d.skip = skip
        /\ d.kind = c.kind /\ d.eof = no /\ d.pending = part
    BY <1>2, <1>3, <1>4, <1>5, <1>6 DEF CodecRecords
  <1>8. Remaining(d) = 0 /\ Reach(d) = target
    <2>1. Remaining(d) = 0
      BY <1>5, <1>7 DEF Remaining
    <2>2. Reach(d) = start + skip - 0
      BY <1>2, <1>7 DEF Reach, start
    <2> QED
      BY <2>1, <2>2, <1>3 DEF skip
  <1>9. Position(d) = target
    BY <1>7, <1>8, StreamAssumption DEF Position, Reach, Lower
  <1> QED
    BY <1>2, <1>3, <1>7, <1>8, <1>9 DEF CodecInv, OpenInv, no

\* The packet an Opus seek stops at: the first that reaches the target.
LEMMA FirstReaching ==
  ASSUME NEW target \in 0 .. Frames
  PROVE  LET reaching == {k \in 0 .. Packets("Opus") - 1 : EndOfPacket(k) >= target} IN
           Min(reaching) \in reaching
  <1> DEFINE N == Packets("Opus")
             reaching == {k \in 0 .. N - 1 : EndOfPacket(k) >= target}
             m == target + PreSkip + PacketFrames - 1
             q == m \div PacketFrames
  <1>1. /\ N \in Nat \ {0} /\ N * PacketFrames >= Frames + PreSkip
        /\ N * PacketFrames \in Nat
    BY PacketsCover DEF Kinds, Lead
  <1>2. \A k \in 0 .. N - 1 :
          /\ (k + 1) * PacketFrames \in Nat
          /\ EndOfPacket(k) \in Nat
          /\ target > 0 => (EndOfPacket(k) >= target
                              <=> (k + 1) * PacketFrames - PreSkip >= target)
    <2> SUFFICES ASSUME NEW k \in 0 .. N - 1
                 PROVE  /\ (k + 1) * PacketFrames \in Nat
                        /\ EndOfPacket(k) \in Nat
                        /\ target > 0 => (EndOfPacket(k) >= target
                              <=> (k + 1) * PacketFrames - PreSkip >= target)
      OBVIOUS
    <2>1. (k + 1) * PacketFrames \in Nat
      BY <1>1, PacketStarts
    <2> QED
      BY <2>1, StreamAssumption DEF EndOfPacket, Lower, Higher
  <1> SUFFICES \E k \in reaching : \A j \in reaching : k <= j
    BY DEF Min
  <1>3. CASE target = 0
    <2>1. 0 \in reaching
      BY <1>1, <1>2, <1>3
    <2> QED
      BY <1>1, <2>1
  <1>4. CASE target > 0
    <2>1. m \in Nat /\ m >= PacketFrames
      BY <1>4, StreamAssumption
    <2>2. /\ q \in Nat /\ q * PacketFrames \in Nat
          /\ q * PacketFrames <= m /\ m < q * PacketFrames + PacketFrames
      <3> HIDE DEF m
      <3> QED
        BY <2>1, StreamAssumption
    <2>3. q >= 1
      BY <2>1, <2>2, StreamAssumption
    <2>4. q * PacketFrames - PreSkip >= target
      BY <2>2, StreamAssumption
    <2> HIDE DEF q
    <2>5. (q - 1) * PacketFrames < target + PreSkip /\ (q - 1) * PacketFrames \in Nat
      <3>1. /\ (q - 1) * PacketFrames \in Nat
            /\ q * PacketFrames = (q - 1) * PacketFrames + PacketFrames
        BY <2>2, <2>3, PacketStarts
      <3> QED
        BY <2>2, <3>1, StreamAssumption
    <2> HIDE DEF m, N
    <2>6. q <= N
      <3> SUFFICES ASSUME N <= q - 1 PROVE FALSE
        BY <1>1, <2>2
      <3>1. N * PacketFrames <= (q - 1) * PacketFrames
        BY <1>1, <2>2, <2>3, StreamAssumption
      <3> QED
        BY <3>1, <1>1, <2>5, StreamAssumption
    <2>7. q - 1 \in reaching
      BY <1>1, <1>2, <1>4, <2>2, <2>3, <2>4, <2>6
    <2>8. ASSUME NEW j \in reaching PROVE q - 1 <= j
      <3> SUFFICES ASSUME j + 1 <= q - 1 PROVE FALSE
        BY <2>2, <1>1
      <3>1. (j + 1) * PacketFrames <= (q - 1) * PacketFrames
        BY <1>1, <2>2, <2>3, StreamAssumption
      <3> QED
        BY <3>1, <1>1, <1>2, <1>4, <2>5, StreamAssumption
    <2> QED
      BY <2>7, <2>8
  <1> QED
    BY <1>3, <1>4

LEMMA OpusSeeksInv ==
  ASSUME NEW c, CodecInv(c), c.open, c.kind = "Opus",
         NEW target \in 0 .. Frames, NEW d \in OpusSeeks(c, target)
  PROVE  CodecInv(d) /\ d.open /\ Position(d) = target
  <1> DEFINE N == Packets(c.kind)
             k == Min({k \in 0 .. N - 1 : EndOfPacket(k) >= target})
             edge == EndOfPacket(k)
             next == k + 1
             start == next * PacketFrames
             skip == Higher(PreSkip - start, 0)
             eof == next = N /\ edge = target
             part == [from |-> target, to |-> edge]
  <1>1. /\ c \in CodecRecords /\ c.kind \in Kinds /\ Lead(c.kind) = PreSkip
        /\ N \in Nat \ {0}
    BY PacketsCover DEF CodecInv, CodecRecords, Lead
  <1>2. k \in 0 .. N - 1 /\ edge >= target
    BY FirstReaching
  <1>3. d = [c EXCEPT !.packet = next, !.emitted = target, !.skip = skip,
                      !.pending = part, !.eof = eof]
    BY DEF OpusSeeks
  <1> HIDE DEF k, N
  <1>4. start \in Nat /\ next \in Nat /\ next <= N
    BY <1>1, <1>2, PacketStarts
  <1>5. edge = Higher(Lower(start - PreSkip, Frames), 0)
    BY DEF EndOfPacket
  <1> HIDE DEF start, edge, next
  <1>6. edge \in Nat /\ skip \in Nat /\ eof \in BOOLEAN
    BY <1>2, <1>4, <1>5, StreamAssumption DEF Lower, Higher
  <1>7. part \in [from : Int, to : Int] /\ part.from = target /\ part.to = edge
    BY <1>6
  <1>8. eof => next = N
    OBVIOUS
  <1>9. target \in Int
    OBVIOUS
  <1> HIDE DEF skip, part, eof
  <1>10. /\ d \in CodecRecords /\ d.open = c.open /\ d.packet = next /\ d.skip = skip
         /\ d.kind = c.kind /\ d.eof = eof /\ d.pending = part /\ d.emitted = target
    BY <1>1, <1>3, <1>4, <1>6, <1>7, <1>9 DEF CodecRecords
  <1>11. Remaining(d) = edge - target /\ Reach(d) = start + skip - PreSkip
    BY <1>1, <1>7, <1>10 DEF Remaining, Reach, start
  <1>12. Reach(d) >= 0 /\ (skip > 0 => Reach(d) = 0)
    BY <1>4, <1>11, StreamAssumption DEF skip, Higher
  <1>13. edge = Lower(Frames, Reach(d))
    BY <1>4, <1>5, <1>11, StreamAssumption DEF skip, Higher, Lower
  <1>14. edge > 0 => skip = 0
    BY <1>4, <1>5, StreamAssumption DEF skip, Higher, Lower
  <1>15. Position(d) = target
    <2>1. CASE edge > target
      BY <2>1, <1>6, <1>7, <1>10, <1>11 DEF Position
    <2>2. CASE edge = target
      <3>1. Position(d) = Lower(Frames, Reach(d))
        BY <2>2, <1>6, <1>10, <1>11 DEF Position, Reach
      <3> QED
        BY <2>2, <3>1, <1>13
    <2> QED
      BY <2>1, <2>2, <1>2, <1>6
  <1>16. d.packet <= Packets(d.kind) /\ (d.eof => d.packet = Packets(d.kind))
    BY <1>4, <1>8, <1>10 DEF N
  <1>17. /\ Remaining(d) >= 0
         /\ Remaining(d) > 0 => /\ d.skip = 0 /\ d.pending.from >= 0
                                /\ d.pending.to = Lower(Frames, Reach(d))
    BY <1>2, <1>6, <1>7, <1>10, <1>11, <1>13, <1>14
  <1> QED
    BY <1>10, <1>12, <1>15, <1>16, <1>17 DEF CodecInv, OpenInv

\* Decoding a packet delivers nothing, and loses nothing that was ahead.
LEMMA NextPacketInv ==
  ASSUME NEW c, CodecInv(c), c.open, Remaining(c) = 0, ~c.eof
  PROVE  LET d == NextPacket(c) IN CodecInv(d) /\ d.open /\ Position(d) = Position(c)
  <1>1. c.kind \in Kinds
    BY DEF CodecInv, CodecRecords
  <1> QED
    BY <1>1, SymphoniaPacketInv, OpusPacketInv DEF NextPacket, Kinds

\* A seek leaves the stream at its target.
LEMMA SeeksInv ==
  ASSUME NEW c, CodecInv(c), c.open, NEW target \in 0 .. Frames,
         NEW d \in Seeks(c, target)
  PROVE  CodecInv(d) /\ d.open /\ Position(d) = target
  <1>1. c.kind \in Kinds
    BY DEF CodecInv, CodecRecords
  <1> QED
    BY <1>1, SymphoniaSeeksInv, OpusSeeksInv DEF Seeks, Kinds

\* A stream that has ended, and holds nothing back, is at its last frame.
LEMMA EndedAtFrames ==
  ASSUME NEW c, CodecInv(c), c.eof, Remaining(c) = 0
  PROVE  Position(c) = Frames
  <1>1. /\ c \in CodecRecords /\ c.kind \in Kinds /\ c.skip \in Nat /\ c.open
        /\ c.packet = Packets(c.kind)
    BY DEF CodecInv, CodecRecords, OpenInv
  <1>2. /\ Lead(c.kind) \in Nat
        /\ c.packet * PacketFrames >= Frames + Lead(c.kind)
        /\ c.packet * PacketFrames \in Nat
    BY <1>1, PacketsCover
  <1>3. Reach(c) >= Frames /\ Reach(c) \in Int
    BY <1>1, <1>2, StreamAssumption DEF Reach
  <1>4. Position(c) = Lower(Frames, Reach(c))
    BY <1>1 DEF Position, Reach
  <1> QED
    BY <1>3, <1>4, StreamAssumption DEF Lower

LEMMA PositionType ==
  ASSUME NEW c \in CodecRecords
  PROVE  Position(c) \in Int /\ Remaining(c) \in Int
  <1>1. /\ c.kind \in Kinds /\ c.skip \in Nat /\ c.packet \in Nat
        /\ c.pending.from \in Int /\ c.pending.to \in Int
    BY DEF CodecRecords
  <1>2. c.packet * PacketFrames \in Nat /\ Lead(c.kind) \in Nat
    BY <1>1, PacketsCover, PacketStarts
  <1> QED
    BY <1>1, <1>2, StreamAssumption DEF Position, Remaining, Lower

(***************************************************************************)
(* The worker, its codec and the call in progress.                         *)
(***************************************************************************)
CallRecords ==
  [op : {"None", "Decode", "Seek"}, at : {"Idle", "Reopen", "Open", "Decode", "Seek"},
   room : Int, from : Int, to : Int, target : Int,
   resume : {"Ready", "Running", "Paused"}]
Outputs == [generation : Nat, from : Int, to : Int, ended : BOOLEAN]

DecodeType ==
  /\ state \in States
  /\ generation \in Nat
  /\ codec \in CodecRecords
  /\ call \in CallRecords
  /\ outputs \in Seq(Outputs)
  /\ accepted \in [generation : Nat, from : Int, to : Int]
  /\ origin \in Int

\* States in which the worker still answers.
Live == state \in {"Ready", "Running", "Paused", "Ended"}

\* What a decode in progress has put into the slice ends where the codec is.
DecodingInv ==
  call.op = "Decode" =>
    /\ state = "Running"
    /\ call.at \in {"Open", "Decode"}
    /\ call.room > 0 /\ Written \in 0 .. call.room
    /\ call.at = "Open" => Written = 0
    /\ Written > 0 => call.to = Position(codec)

SeekingInv ==
  call.op = "Seek" =>
    Live /\ call.at \in {"Reopen", "Open", "Seek"} /\ call.target \in 0 .. Frames

WorkerInv ==
  /\ DecodeType
  /\ Live => CodecInv(codec)
  /\ call.op = "None" => call = NoCall
  /\ call.at = "Open" => ~codec.open
  /\ call.at \in {"Decode", "Seek"} => codec.open
  /\ DecodingInv
  /\ SeekingInv

\* The frame the next output has to begin with, by what was returned before it
\* and by what the codec has ahead.
Before(i) ==
  IF i > 1 /\ outputs[i - 1].generation = generation THEN outputs[i - 1].to
  ELSE IF accepted.generation = generation THEN accepted.to ELSE origin
Due == Before(Len(outputs) + 1)
Ahead == IF call.op = "Decode" /\ Written > 0 THEN call.from ELSE Position(codec)

ChainInv ==
  /\ accepted.generation <= generation
  /\ \A i \in DOMAIN outputs :
       /\ outputs[i].generation <= generation
       /\ outputs[i].generation = generation => outputs[i].from = Before(i)
  /\ \A i, j \in DOMAIN outputs :
       i < j /\ outputs[i].generation = generation => outputs[j].generation = generation
  /\ Live /\ call.op # "Seek" => Due = Ahead
  /\ call.op = "Seek" => /\ accepted.generation # generation
                         /\ \A i \in DOMAIN outputs : outputs[i].generation # generation

LEMMA NoCallType == NoCall \in CallRecords /\ NoCall.op = "None" /\ NoCall.at = "Idle"
  BY DEF NoCall, CallRecords

LEMMA DecodeStarts == DecodeInit => WorkerInv /\ ChainInv
  <1> SUFFICES ASSUME DecodeInit PROVE WorkerInv /\ ChainInv
    OBVIOUS
  <1>1. /\ CodecInv(codec) /\ ~codec.open /\ Position(codec) = 0
        /\ codec \in CodecRecords
    BY NewCodecInv DEF DecodeInit, CodecInv
  <1>2. call = NoCall /\ call \in CallRecords /\ call.op = "None" /\ call.at = "Idle"
    BY NoCallType DEF DecodeInit
  <1>3. accepted \in [generation : Nat, from : Int, to : Int]
    BY DEF DecodeInit
  <1>4. outputs = <<>> /\ outputs \in Seq(Outputs) /\ Len(outputs) = 0
    BY DEF DecodeInit
  <1>5. WorkerInv
    BY <1>1, <1>2, <1>3, <1>4
       DEF DecodeInit, WorkerInv, DecodeType, DecodingInv, SeekingInv, States
  <1>6. Due = 0 /\ Ahead = 0
    BY <1>1, <1>2, <1>4 DEF Due, Ahead, Before, DecodeInit
  <1>7. ChainInv
    BY <1>2, <1>4, <1>6 DEF ChainInv, DecodeInit
  <1> QED
    BY <1>5, <1>7

\* A step that leaves the outputs alone, and what is ahead of them.
LEMMA ChainStands ==
  ASSUME ChainInv, UNCHANGED <<generation, outputs, accepted, origin>>,
         call'.op = "Seek" => call.op = "Seek",
         (Live /\ call.op # "Seek")' =>
            Live /\ call.op # "Seek" /\ Ahead' = Ahead
  PROVE  ChainInv'
  <1>1. /\ Due' = Due
        /\ \A i \in DOMAIN outputs : Before(i)' = Before(i)
    BY DEF Due, Before
  <1> QED
    BY <1>1 DEF ChainInv

\* A new generation owes nothing to what was returned before it.
LEMMA NewGeneration ==
  ASSUME WorkerInv, ChainInv, generation' = generation + 1,
         UNCHANGED <<outputs, accepted>>,
         (Live /\ call.op # "Seek")' => Ahead' = origin'
  PROVE  ChainInv'
  <1>1. /\ generation \in Nat /\ accepted.generation \in Nat
        /\ outputs \in Seq(Outputs)
        /\ \A i \in DOMAIN outputs : outputs[i].generation \in Nat
    <2>1. outputs \in Seq(Outputs) /\ \A i \in DOMAIN outputs : outputs[i] \in Outputs
      BY DEF WorkerInv, DecodeType
    <2> QED
      BY <2>1 DEF WorkerInv, DecodeType, Outputs
  <1>2. /\ accepted'.generation < generation'
        /\ \A i \in DOMAIN outputs' : outputs'[i].generation < generation'
    BY <1>1 DEF ChainInv
  <1>3. Due' = origin'
    <2>1. Len(outputs) > 0 => Len(outputs) \in DOMAIN outputs
      BY <1>1
    <2> QED
      BY <1>1, <1>2, <2>1 DEF Due, Before
  <1> QED
    BY <1>1, <1>2, <1>3 DEF ChainInv

LEMMA MoveKeeps ==
  ASSUME WorkerInv, ChainInv, StartWorker \/ Pause \/ Resume
  PROVE  WorkerInv' /\ ChainInv'
  <1>1. /\ call = NoCall /\ Live /\ Live'
        /\ state' \in {"Running", "Paused"}
        /\ UNCHANGED <<generation, codec, call, outputs, accepted, origin>>
    BY DEF StartWorker, Pause, Resume, MoveTo, Idle, Live
  <1>2. call.op = "None" /\ call.at = "Idle"
    BY <1>1, NoCallType
  <1>3. WorkerInv'
    BY <1>1, <1>2 DEF WorkerInv, DecodeType, DecodingInv, SeekingInv, States
  <1>4. Ahead' = Ahead
    BY <1>1 DEF Ahead, Written
  <1> QED
    BY <1>1, <1>2, <1>3, <1>4, ChainStands

LEMMA FailKeeps ==
  ASSUME WorkerInv, ChainInv, NEW failure \in {"Failed", "Cancelled"}, FailTo(failure)
  PROVE  WorkerInv' /\ ChainInv'
  <1>1. /\ ~Live' /\ state' \in States /\ call' = NoCall
        /\ UNCHANGED <<generation, codec, outputs, accepted, origin>>
    BY DEF FailTo, Live, States
  <1>2. call'.op = "None" /\ call'.at = "Idle" /\ call' \in CallRecords
    BY <1>1, NoCallType
  <1>3. WorkerInv'
    BY <1>1, <1>2 DEF WorkerInv, DecodeType, DecodingInv, SeekingInv
  <1> QED
    BY <1>1, <1>2, <1>3, ChainStands

LEMMA SourceKeeps ==
  ASSUME WorkerInv, ChainInv, ReadSource
  PROVE  WorkerInv' /\ ChainInv'
  <1>1. CASE FailTo("Cancelled") \/ FailTo("Failed")
    BY <1>1, FailKeeps
  <1>2. CASE /\ codec' = Opened(codec)
             /\ call' = [call EXCEPT !.at = call.op]
             /\ UNCHANGED <<state, generation, token, outputs, accepted, origin>>
    <2>1. /\ call \in CallRecords /\ call.at = "Open" /\ call.op \in {"Decode", "Seek"}
          /\ ~codec.open /\ Live
      BY NoCallType DEF ReadSource, WorkerInv, DecodeType, CallRecords, DecodingInv,
                        SeekingInv, Live
    <2>2. /\ CodecInv(codec') /\ codec'.open /\ codec' \in CodecRecords
          /\ Position(codec') = 0 /\ Position(codec) = 0
      BY <1>2, <2>1, OpenedInv DEF WorkerInv, CodecInv, Position
    <2>3. /\ call' \in CallRecords /\ call'.op = call.op /\ call'.at = call.op
          /\ call'.room = call.room /\ call'.from = call.from /\ call'.to = call.to
          /\ call'.target = call.target
      BY <1>2, <2>1 DEF CallRecords
    <2>4. Written' = Written /\ Live'
      BY <1>2, <2>1, <2>3 DEF Written, Live
    <2>5. WorkerInv'
      BY <1>2, <2>1, <2>2, <2>3, <2>4
         DEF WorkerInv, DecodeType, DecodingInv, SeekingInv
    <2>6. Ahead' = Ahead
      BY <2>2, <2>3, <2>4 DEF Ahead
    <2> QED
      BY <1>2, <2>1, <2>3, <2>5, <2>6, ChainStands
  <1> QED
    BY <1>1, <1>2 DEF ReadSource

LEMMA ReopenKeeps ==
  ASSUME WorkerInv, ChainInv, ReopenSource
  PROVE  WorkerInv' /\ ChainInv'
  <1>1. CASE FailTo("Cancelled") \/ FailTo("Failed")
    BY <1>1, FailKeeps
  <1>2. CASE /\ codec' = Reopened(codec)
             /\ call' = [call EXCEPT !.at = "Open"]
             /\ UNCHANGED <<state, generation, token, outputs, accepted, origin>>
    <2>1. /\ call \in CallRecords /\ call.at = "Reopen" /\ call.op = "Seek" /\ Live
          /\ codec.kind \in Kinds
      BY NoCallType DEF ReopenSource, WorkerInv, DecodeType, CallRecords, CodecRecords,
                        DecodingInv, SeekingInv
    <2>2. CodecInv(codec') /\ ~codec'.open /\ codec' \in CodecRecords
      BY <1>2, <2>1, NewCodecInv DEF Reopened, CodecInv
    <2>3. /\ call' \in CallRecords /\ call'.op = call.op /\ call'.at = "Open"
          /\ call'.target = call.target
      BY <1>2, <2>1 DEF CallRecords
    <2>4. WorkerInv'
      BY <1>2, <2>1, <2>2, <2>3
         DEF WorkerInv, DecodeType, DecodingInv, SeekingInv, Live
    <2> QED
      BY <1>2, <2>1, <2>3, <2>4, ChainStands
  <1> QED
    BY <1>1, <1>2 DEF ReopenSource

LEMMA CopyKeeps ==
  ASSUME WorkerInv, ChainInv, CopyFrames
  PROVE  WorkerInv' /\ ChainInv'
  <1> DEFINE room == call.room - Written
             copied == Lower(Remaining(codec), room)
             start == codec.pending.from
  <1>1. /\ call \in CallRecords /\ call.at = "Decode" /\ Remaining(codec) > 0
        /\ call.op = "Decode" /\ state = "Running" /\ Live /\ codec.open
        /\ CodecInv(codec) /\ call.room \in Int /\ Written \in 0 .. call.room
        /\ Written < call.room
        /\ UNCHANGED <<state, generation, outputs, accepted, origin>>
    BY NoCallType DEF CopyFrames, WorkerInv, DecodeType, CallRecords, DecodingInv,
                      SeekingInv, Live
  <1>2. room \in Nat \ {0}
    BY <1>1
  <1>3. /\ CodecInv(codec') /\ codec'.open /\ codec' \in CodecRecords
        /\ copied \in 1 .. room
        /\ Position(codec) = start /\ Position(codec') = start + copied
    <2> HIDE DEF room
    <2> QED
      BY <1>1, <1>2, CopyPendingInv DEF CopyFrames, CodecInv, room
  <1>4. start \in Int /\ call.from \in Int /\ call.to \in Int
    BY <1>1 DEF CodecInv, CodecRecords, CallRecords
  <1>5. /\ call' \in CallRecords /\ call'.op = call.op /\ call'.at = call.at
        /\ call'.room = call.room /\ call'.to = start + copied
        /\ call'.from = IF Written = 0 THEN start ELSE call.from
    <2>1. CASE Written = 0
      <3> DEFINE edge == start + copied
      <3>1. call' = [call EXCEPT !.from = start, !.to = edge]
        BY <2>1 DEF CopyFrames
      <3>2. edge \in Int
        BY <1>2, <1>3, <1>4
      <3> HIDE DEF start, edge
      <3> QED
        BY <1>1, <1>4, <2>1, <3>1, <3>2 DEF CallRecords, edge
    <2>2. CASE Written # 0
      <3> DEFINE edge == call.to + copied
      <3>1. call' = [call EXCEPT !.to = edge]
        BY <2>2, <1>1 DEF CopyFrames, CallRecords
      <3>2. call.to = start
        BY <1>1, <1>3, <2>2 DEF WorkerInv, DecodingInv
      <3>3. edge \in Int
        BY <1>2, <1>3, <1>4
      <3> HIDE DEF edge, start
      <3>4. /\ call' \in CallRecords /\ call'.op = call.op /\ call'.at = call.at
            /\ call'.room = call.room /\ call'.from = call.from /\ call'.to = edge
        BY <1>1, <3>1, <3>3 DEF CallRecords
      <3> QED
        BY <2>2, <3>2, <3>4 DEF edge
    <2> QED
      BY <2>1, <2>2
  <1>6. Written' = Written + copied
    <2>1. CASE Written = 0
      BY <2>1, <1>2, <1>3, <1>4, <1>5 DEF Written
    <2>2. CASE Written # 0
      <3>1. call.to = start
        BY <1>1, <1>3, <2>2 DEF WorkerInv, DecodingInv
      <3> QED
        BY <2>2, <3>1, <1>2, <1>3, <1>4, <1>5 DEF Written
    <2> QED
      BY <2>1, <2>2
  <1> HIDE DEF copied, start
  <1>7. Written' \in 0 .. call.room /\ Written' > 0
    BY <1>1, <1>2, <1>3, <1>6
  <1>8. WorkerInv'
    BY <1>1, <1>3, <1>5, <1>7 DEF WorkerInv, DecodeType, DecodingInv, SeekingInv, Live
  <1>9. Ahead' = Ahead
    BY <1>1, <1>3, <1>5, <1>7 DEF Ahead
  <1> QED
    BY <1>1, <1>5, <1>8, <1>9, ChainStands

LEMMA FillKeeps ==
  ASSUME WorkerInv, ChainInv, FillPending
  PROVE  WorkerInv' /\ ChainInv'
  <1>1. CASE FailTo("Failed")
    BY <1>1, FailKeeps
  <1>2. CASE /\ codec' = NextPacket(codec)
             /\ UNCHANGED <<state, generation, source, token, call, outputs, accepted, origin>>
    <2>1. /\ call.op = "Decode" /\ call.at = "Decode" /\ Live /\ codec.open
          /\ CodecInv(codec) /\ Remaining(codec) = 0 /\ ~codec.eof
      BY NoCallType DEF FillPending, WorkerInv, DecodeType, CallRecords, DecodingInv,
                        SeekingInv, Live
    <2>2. /\ CodecInv(codec') /\ codec'.open /\ codec' \in CodecRecords
          /\ Position(codec') = Position(codec)
      BY <1>2, <2>1, NextPacketInv DEF CodecInv
    <2>3. Written' = Written /\ Live'
      BY <1>2, <2>1 DEF Written, Live
    <2>4. WorkerInv'
      BY <1>2, <2>1, <2>2, <2>3 DEF WorkerInv, DecodeType, DecodingInv, SeekingInv
    <2>5. Ahead' = Ahead
      BY <1>2, <2>2, <2>3 DEF Ahead
    <2> QED
      BY <1>2, <2>1, <2>4, <2>5, ChainStands
  <1> QED
    BY <1>1, <1>2 DEF FillPending

\* Seek: what the old generation returned is retired before anything can fail.
LEMMA SeekKeeps ==
  ASSUME WorkerInv, ChainInv, NEW target \in 0 .. Frames, NEW reopen \in BOOLEAN,
         Seek(target, reopen)
  PROVE  WorkerInv' /\ ChainInv'
  <1>1. /\ call = NoCall /\ generation' = generation + 1 /\ origin' = Nowhere
        /\ UNCHANGED <<codec, outputs, accepted>>
        /\ Nowhere \in Int
    BY DEF Seek, Idle, Nowhere
  <1>2. CASE state' = "Cancelled" /\ UNCHANGED call
    <2>1. ~Live' /\ call.op = "None" /\ call.at = "Idle"
      BY <1>1, <1>2, NoCallType DEF Live
    <2>2. WorkerInv'
      BY <1>1, <1>2, <2>1
         DEF WorkerInv, DecodeType, DecodingInv, SeekingInv, States
    <2> QED
      BY <1>1, <2>1, <2>2, NewGeneration
  <1>3. CASE /\ call' = [NoCall EXCEPT !.op = "Seek", !.target = target,
                                       !.resume = AfterSeek,
                                       !.at = IF reopen THEN "Reopen"
                                              ELSE IF codec.open THEN "Seek" ELSE "Open"]
             /\ UNCHANGED state
    <2> DEFINE op == "Seek"
               resume == AfterSeek
               at == IF reopen THEN "Reopen" ELSE IF codec.open THEN "Seek" ELSE "Open"
    <2>1. /\ op \in {"None", "Decode", "Seek"}
          /\ at \in {"Idle", "Reopen", "Open", "Decode", "Seek"}
          /\ at \in {"Reopen", "Open", "Seek"}
          /\ at = "Open" => ~codec.open
          /\ at = "Seek" => codec.open
          /\ at # "Decode"
          /\ resume \in {"Ready", "Running", "Paused"}
          /\ target \in Int
      BY DEF AfterSeek
    <2>2. call' = [NoCall EXCEPT !.op = op, !.target = target, !.resume = resume, !.at = at]
      BY <1>3
    <2>3. op = "Seek"
      OBVIOUS
    <2> HIDE DEF op, resume, at
    <2>4. /\ call' \in CallRecords /\ call'.op = op /\ call'.at = at
          /\ call'.target = target
      BY <2>1, <2>2, NoCallType DEF CallRecords
    <2>5. Live /\ Live'
      BY <1>3 DEF Seek, Live
    <2>6. WorkerInv'
      BY <1>1, <1>3, <2>1, <2>3, <2>4, <2>5
         DEF WorkerInv, DecodeType, DecodingInv, SeekingInv
    <2> QED
      BY <1>1, <2>3, <2>4, <2>6, NewGeneration
  <1> QED
    BY <1>2, <1>3 DEF Seek

LEMMA CommitKeeps ==
  ASSUME WorkerInv, ChainInv, CommitSeek
  PROVE  WorkerInv' /\ ChainInv'
  <1>1. CASE FailTo("Failed")
    BY <1>1, FailKeeps
  <1>2. CASE /\ codec' \in Seeks(codec, call.target)
             /\ state' = call.resume
             /\ origin' = call.target
             /\ call' = NoCall
             /\ UNCHANGED <<generation, token, outputs, accepted>>
    <2>1. /\ call \in CallRecords /\ call.op = "Seek" /\ codec.open /\ Live
          /\ CodecInv(codec) /\ call.target \in 0 .. Frames
          /\ call.resume \in {"Ready", "Running", "Paused"}
      BY NoCallType DEF CommitSeek, WorkerInv, DecodeType, CallRecords, DecodingInv,
                        SeekingInv
    <2>2. /\ CodecInv(codec') /\ codec' \in CodecRecords
          /\ Position(codec') = call.target
      BY <1>2, <2>1, SeeksInv DEF CodecInv
    <2>3. /\ call'.op = "None" /\ call'.at = "Idle" /\ call' \in CallRecords
          /\ state' \in States /\ origin' \in Int
      BY <1>2, <2>1, NoCallType, StreamAssumption DEF States
    <2>4. WorkerInv'
      BY <1>2, <2>2, <2>3 DEF WorkerInv, DecodeType, DecodingInv, SeekingInv
    <2>5. outputs \in Seq(Outputs)
      BY DEF WorkerInv, DecodeType
    <2>6. Due' = origin'
      <3>1. Len(outputs) > 0 => Len(outputs) \in DOMAIN outputs
        BY <2>5
      <3> QED
        BY <1>2, <2>1, <2>5, <3>1 DEF ChainInv, Due, Before
    <2>7. Ahead' = origin'
      BY <1>2, <2>2, <2>3 DEF Ahead
    <2> QED
      BY <1>2, <2>1, <2>3, <2>4, <2>6, <2>7 DEF ChainInv
  <1> QED
    BY <1>1, <1>2 DEF CommitSeek

LEMMA InvalidateKeeps ==
  ASSUME WorkerInv, ChainInv, InvalidateGeneration
  PROVE  WorkerInv' /\ ChainInv'
  <1>1. /\ generation' = generation + 1 /\ origin' = Position(codec) /\ call = NoCall
        /\ UNCHANGED <<state, codec, call, outputs, accepted>>
    BY DEF InvalidateGeneration, Idle
  <1>2. call.op = "None" /\ call.at = "Idle" /\ origin' \in Int
    BY <1>1, NoCallType, PositionType DEF WorkerInv, DecodeType
  <1>3. WorkerInv'
    BY <1>1, <1>2 DEF WorkerInv, DecodeType, DecodingInv, SeekingInv, Live
  <1>4. Ahead' = origin'
    BY <1>1, <1>2 DEF Ahead
  <1> QED
    BY <1>1, <1>3, <1>4, NewGeneration

LEMMA WithoutType ==
  ASSUME NEW c \in CodecRecords
  PROVE  Closed(c) \in CodecRecords /\ Cancelled(c) \in CodecRecords
  <1> DEFINE no == FALSE
             zero == 0
             part == [from |-> zero, to |-> zero]
  <1>1. part \in [from : Int, to : Int] /\ no \in BOOLEAN
    OBVIOUS
  <1>2. Without(c) = [c EXCEPT !.open = no, !.pending = part]
    BY DEF Without
  <1> HIDE DEF part, no
  <1>3. Without(c) \in CodecRecords
    BY <1>1, <1>2 DEF CodecRecords
  <1> QED
    BY <1>3 DEF Closed, Cancelled, CodecRecords

LEMMA LeaveKeeps ==
  ASSUME WorkerInv, ChainInv, Cancel \/ Close
  PROVE  WorkerInv' /\ ChainInv'
  <1>1. /\ call = NoCall /\ state' \in {"Cancelled", "Closed"}
        /\ codec' \in {Cancelled(codec), Closed(codec)}
        /\ UNCHANGED <<call, outputs, accepted, origin>>
        /\ generation' = generation + 1 \/ UNCHANGED generation
    BY DEF Cancel, Close, Idle
  <1>2. /\ call.op = "None" /\ call.at = "Idle" /\ ~Live' /\ codec' \in CodecRecords
        /\ state' \in States /\ generation' \in Nat
    BY <1>1, NoCallType, WithoutType DEF WorkerInv, DecodeType, Live, States
  <1>3. WorkerInv'
    BY <1>1, <1>2 DEF WorkerInv, DecodeType, DecodingInv, SeekingInv
  <1> QED
    BY <1>1, <1>2, <1>3, NewGeneration, ChainStands

LEMMA StandKeeps ==
  ASSUME WorkerInv, ChainInv, CancelToken \/ UNCHANGED decodeVars
  PROVE  WorkerInv' /\ ChainInv'
  <1>1. UNCHANGED <<state, generation, codec, call, outputs, accepted, origin>>
    BY DEF CancelToken, decodeVars
  <1>2. WorkerInv'
    BY <1>1 DEF WorkerInv, DecodeType, DecodingInv, SeekingInv, Live, Written
  <1>3. Ahead' = Ahead /\ Live' = Live
    BY <1>1 DEF Ahead, Written, Live
  <1> QED
    BY <1>1, <1>2, <1>3, ChainStands

\* An output returned begins where it is due, and moves what is due to its end.
LEMMA ReturnKeeps ==
  ASSUME WorkerInv, ChainInv, Live, call.op # "Seek",
         NEW from \in Int, NEW to \in Int, NEW ended \in BOOLEAN,
         Returned(codec, from, to, ended), from = Ahead, to = Position(codec)
  PROVE  WorkerInv' /\ ChainInv'
  <1> DEFINE o == [generation |-> generation, from |-> from, to |-> to, ended |-> ended]
  <1>1. /\ outputs' = Append(outputs, o) /\ call' = NoCall
        /\ state' \in {"Ended", state}
        /\ UNCHANGED <<codec, generation, accepted, origin>>
    BY DEF Returned
  <1>2. /\ outputs \in Seq(Outputs) /\ generation \in Nat /\ CodecInv(codec)
        /\ state \in States
    BY DEF WorkerInv, DecodeType
  <1>3. o \in Outputs /\ o.generation = generation /\ o.from = from /\ o.to = to
    BY <1>2 DEF Outputs
  <1> HIDE DEF o
  <1>4. /\ call'.op = "None" /\ call'.at = "Idle" /\ call' \in CallRecords
    BY <1>1, NoCallType
  <1>5. outputs' \in Seq(Outputs) /\ state' \in States
    BY <1>1, <1>2, <1>3 DEF States
  <1>6. WorkerInv'
    BY <1>1, <1>2, <1>4, <1>5 DEF WorkerInv, DecodeType, DecodingInv, SeekingInv
  <1>7. /\ Len(outputs') = Len(outputs) + 1 /\ Len(outputs) \in Nat
        /\ DOMAIN outputs' = 1 .. Len(outputs) + 1 /\ DOMAIN outputs = 1 .. Len(outputs)
        /\ \A i \in 1 .. Len(outputs) : outputs'[i] = outputs[i]
        /\ outputs'[Len(outputs) + 1] = o
    BY <1>1, <1>2, <1>3
  <1>8. \A i \in 1 .. Len(outputs) + 1 : Before(i)' = Before(i)
    BY <1>1, <1>7 DEF Before
  <1>9. Due = Ahead /\ Ahead' = Position(codec) /\ Due' = to
    <2>1. Due = Ahead
      BY DEF ChainInv
    <2>2. Ahead' = Position(codec)
      BY <1>1, <1>4 DEF Ahead
    <2>3. Due' = to
      BY <1>1, <1>3, <1>7 DEF Due, Before
    <2> QED
      BY <2>1, <2>2, <2>3
  <1>10. ASSUME NEW i \in DOMAIN outputs'
         PROVE  /\ outputs'[i].generation <= generation'
                /\ outputs'[i].generation = generation' => outputs'[i].from = Before(i)'
    <2>1. CASE i = Len(outputs) + 1
      BY <2>1, <1>1, <1>2, <1>3, <1>7, <1>8, <1>9 DEF Due
    <2>2. CASE i # Len(outputs) + 1
      <3>1. i \in 1 .. Len(outputs)
        BY <2>2, <1>7
      <3> QED
        BY <3>1, <1>1, <1>7, <1>8 DEF ChainInv
    <2> QED
      BY <2>1, <2>2
  <1>11. ChainInv'
    <2>1. (accepted.generation <= generation)'
      BY <1>1 DEF ChainInv
    <2>2. ASSUME NEW i \in DOMAIN outputs', NEW j \in DOMAIN outputs', i < j,
                 outputs'[i].generation = generation'
          PROVE  outputs'[j].generation = generation'
      <3>1. i \in DOMAIN outputs /\ (j \in DOMAIN outputs \/ j = Len(outputs) + 1)
        BY <2>2, <1>7
      <3> QED
        BY <3>1, <2>2, <1>1, <1>3, <1>7 DEF ChainInv
    <2> QED
      BY <1>4, <1>9, <1>10, <2>1, <2>2 DEF ChainInv
  <1> QED
    BY <1>6, <1>11

LEMMA StepKeeps ==
  ASSUME WorkerInv, ChainInv, NEW room \in Rooms, DecodeStep(room)
  PROVE  WorkerInv' /\ ChainInv'
  <1>1. /\ call = NoCall /\ call.op = "None" /\ call.at = "Idle" /\ state = "Running"
        /\ Live /\ room \in Nat /\ CodecInv(codec)
    BY NoCallType, RoomsAssumption DEF DecodeStep, Idle, Live, WorkerInv
  <1>2. CASE /\ state' = "Cancelled"
             /\ UNCHANGED <<generation, source, token, codec, call, outputs, accepted, origin>>
    <2>1. ~Live' /\ state' \in States
      BY <1>2 DEF Live, States
    <2>2. WorkerInv'
      BY <1>1, <1>2, <2>1 DEF WorkerInv, DecodeType, DecodingInv, SeekingInv
    <2> QED
      BY <1>1, <1>2, <2>1, <2>2, ChainStands
  <1>3. CASE Returned(codec, Position(codec), Position(codec), EndOfStream(codec, 0))
    <2>1. Position(codec) \in Int /\ EndOfStream(codec, 0) \in BOOLEAN
      BY PositionType DEF WorkerInv, DecodeType, EndOfStream, CodecRecords
    <2>2. Ahead = Position(codec)
      BY <1>1 DEF Ahead
    <2> QED
      BY <1>1, <1>3, <2>1, <2>2, ReturnKeeps
  <1>4. CASE /\ room > 0
             /\ call' = [NoCall EXCEPT !.op = "Decode", !.room = room,
                                       !.at = IF codec.open THEN "Decode" ELSE "Open"]
             /\ UNCHANGED <<state, generation, source, token, codec, outputs, accepted, origin>>
    <2> DEFINE op == "Decode"
               at == IF codec.open THEN "Decode" ELSE "Open"
    <2>1. /\ op \in {"None", "Decode", "Seek"} /\ op = "Decode"
          /\ at \in {"Idle", "Reopen", "Open", "Decode", "Seek"}
          /\ at \in {"Open", "Decode"}
          /\ at = "Open" => ~codec.open
          /\ at = "Decode" => codec.open
      OBVIOUS
    <2>2. call' = [NoCall EXCEPT !.op = op, !.room = room, !.at = at]
      BY <1>4
    <2> HIDE DEF op, at
    <2>3. /\ call' \in CallRecords /\ call'.op = op /\ call'.at = at
          /\ call'.room = room /\ call'.from = NoCall.from /\ call'.to = NoCall.to
      <3>1. room \in Int
        BY <1>1
      <3> QED
        BY <2>1, <2>2, <3>1, NoCallType DEF CallRecords
    <2>4. Written' = 0 /\ Live'
      BY <1>1, <1>4, <2>3 DEF Written, NoCall, Live
    <2>5. WorkerInv'
      BY <1>1, <1>4, <2>1, <2>3, <2>4 DEF WorkerInv, DecodeType, DecodingInv, SeekingInv
    <2>6. Ahead' = Ahead
      BY <1>1, <1>4, <2>4 DEF Ahead
    <2> QED
      BY <1>1, <1>4, <2>1, <2>3, <2>5, <2>6, ChainStands
  <1> QED
    BY <1>2, <1>3, <1>4 DEF DecodeStep

LEMMA FinishKeeps ==
  ASSUME WorkerInv, ChainInv, FinishDecode
  PROVE  WorkerInv' /\ ChainInv'
  <1> DEFINE from == IF Written = 0 THEN Position(codec) ELSE call.from
             to == IF Written = 0 THEN Position(codec) ELSE call.to
             ended == EndOfStream(codec, call.room)
  <1>1. /\ call \in CallRecords /\ call.at = "Decode" /\ call.op = "Decode" /\ Live
        /\ codec \in CodecRecords /\ Written \in 0 .. call.room /\ call.room \in Int
        /\ Written > 0 => call.to = Position(codec)
    BY NoCallType DEF FinishDecode, WorkerInv, DecodeType, CallRecords, DecodingInv,
                      SeekingInv, Live
  <1>2. from \in Int /\ to \in Int /\ ended \in BOOLEAN
    BY <1>1, PositionType DEF CallRecords, EndOfStream, CodecRecords
  <1>3. from = Ahead /\ to = Position(codec)
    BY <1>1 DEF Ahead
  <1>4. Returned(codec, from, to, ended)
    BY DEF FinishDecode
  <1> HIDE DEF from, to, ended
  <1> QED
    BY <1>1, <1>2, <1>3, <1>4, ReturnKeeps

\* What the consumer may be given: one run of frames for each generation.
ConsumerGoesOn ==
  accepted' # accepted =>
    accepted'.from = IF accepted'.generation = accepted.generation
                     THEN accepted.to ELSE origin

LEMMA TakeKeeps ==
  ASSUME WorkerInv, ChainInv, TakeOutput
  PROVE  WorkerInv' /\ ChainInv' /\ ConsumerGoesOn
  <1> DEFINE o == Head(outputs)
  <1>1. /\ call = NoCall /\ call.op = "None" /\ call.at = "Idle"
        /\ outputs \in Seq(Outputs) /\ outputs # <<>> /\ outputs' = Tail(outputs)
        /\ UNCHANGED <<state, generation, codec, call, origin>>
    BY NoCallType DEF TakeOutput, Idle, WorkerInv, DecodeType
  <1>2. /\ outputs' \in Seq(Outputs) /\ Len(outputs) \in Nat \ {0}
        /\ Len(outputs') = Len(outputs) - 1
        /\ DOMAIN outputs' = 1 .. Len(outputs) - 1 /\ DOMAIN outputs = 1 .. Len(outputs)
        /\ \A i \in 1 .. Len(outputs) - 1 : outputs'[i] = outputs[i + 1]
        /\ o = outputs[1] /\ o \in Outputs
    BY <1>1
  <1>3. /\ accepted \in [generation : Nat, from : Int, to : Int]
        /\ accepted.generation <= generation /\ generation \in Nat
    BY DEF WorkerInv, DecodeType, ChainInv
  <1> HIDE DEF o
  <1>4. /\ accepted' = IF o.generation = generation
                       THEN [generation |-> generation, from |-> o.from, to |-> o.to]
                       ELSE accepted
        /\ o.from \in Int /\ o.to \in Int
    BY <1>2 DEF TakeOutput, AcceptsOutput, o, Outputs
  <1>5. /\ accepted' \in [generation : Nat, from : Int, to : Int]
        /\ accepted'.generation <= generation
        /\ o.generation = generation =>
             accepted'.generation = generation /\ accepted'.from = o.from
             /\ accepted'.to = o.to
        /\ o.generation # generation => accepted' = accepted
    BY <1>3, <1>4
  <1>6. WorkerInv'
    BY <1>1, <1>2, <1>5 DEF WorkerInv, DecodeType, DecodingInv, SeekingInv, Live, Written
  <1>7. \A i \in 1 .. Len(outputs) : Before(i)' = Before(i + 1)
    <2> SUFFICES ASSUME NEW i \in 1 .. Len(outputs) PROVE Before(i)' = Before(i + 1)
      OBVIOUS
    <2>1. CASE i = 1
      BY <2>1, <1>1, <1>2, <1>5 DEF Before
    <2>2. CASE i > 1
      <3>1. i - 1 \in 1 .. Len(outputs) - 1 /\ (i + 1) - 1 = i /\ (i - 1) + 1 = i
            /\ i + 1 > 1
        BY <2>2, <1>2
      <3>2. outputs'[i - 1] = outputs[i]
        BY <3>1, <1>2
      <3>3. o.generation = generation => outputs[i].generation = generation
        BY <2>2, <1>2 DEF ChainInv
      <3> QED
        BY <2>2, <3>1, <3>2, <3>3, <1>1, <1>5 DEF Before
    <2> QED
      BY <2>1, <2>2, <1>2
  <1>8. Due' = Due /\ Ahead' = Ahead /\ Live' = Live
    <2>1. Len(outputs') + 1 = Len(outputs) /\ Len(outputs) \in 1 .. Len(outputs)
      BY <1>2
    <2>2. Due' = Due
      BY <2>1, <1>7 DEF Due
    <2> QED
      BY <2>2, <1>1 DEF Ahead, Written, Live
  <1>9. ASSUME NEW i \in DOMAIN outputs'
        PROVE  /\ outputs'[i].generation <= generation'
               /\ outputs'[i].generation = generation' => outputs'[i].from = Before(i)'
    <2>1. i + 1 \in DOMAIN outputs /\ outputs'[i] = outputs[i + 1] /\ i \in 1 .. Len(outputs)
      BY <1>2
    <2>2. Before(i)' = Before(i + 1)
      BY <2>1, <1>7
    <2> QED
      BY <2>1, <2>2, <1>1 DEF ChainInv
  <1>10. ASSUME NEW i \in DOMAIN outputs', NEW j \in DOMAIN outputs', i < j,
                outputs'[i].generation = generation'
         PROVE  outputs'[j].generation = generation'
    <2>1. /\ i + 1 \in DOMAIN outputs /\ j + 1 \in DOMAIN outputs /\ i + 1 < j + 1
          /\ outputs'[i] = outputs[i + 1] /\ outputs'[j] = outputs[j + 1]
      BY <1>2, <1>10
    <2> QED
      BY <2>1, <1>1, <1>10 DEF ChainInv
  <1>11. ChainInv'
    <2>1. accepted'.generation <= generation'
      BY <1>1, <1>5
    <2>2. (Live /\ call.op # "Seek" => Due = Ahead)'
      BY <1>1, <1>8 DEF ChainInv
    <2> QED
      BY <1>1, <1>9, <1>10, <2>1, <2>2 DEF ChainInv
  <1>12. ConsumerGoesOn
    <2>1. 1 \in DOMAIN outputs
      BY <1>2
    <2>2. o.generation = generation => o.from = Before(1)
      BY <2>1, <1>2 DEF ChainInv
    <2> QED
      BY <2>2, <1>3, <1>5 DEF ConsumerGoesOn, Before
  <1> QED
    BY <1>6, <1>11, <1>12

LEMMA DecodeKeeps ==
  ASSUME WorkerInv, ChainInv, DecodeNext \/ UNCHANGED decodeVars
  PROVE  WorkerInv' /\ ChainInv' /\ ConsumerGoesOn
  <1>1. CASE TakeOutput
    BY <1>1, TakeKeeps
  <1>2. CASE ~TakeOutput
    <2>1. UNCHANGED accepted
      BY <1>2 DEF DecodeNext, decodeVars, StartWorker, Pause, Resume, MoveTo, DecodeStep,
           Returned, ReadSource, FailTo, ReopenSource, CopyFrames, FillPending,
           FinishDecode, Seek, CommitSeek, InvalidateGeneration, Cancel, Close, CancelToken
    <2>2. ConsumerGoesOn
      BY <2>1 DEF ConsumerGoesOn
    <2>3. WorkerInv' /\ ChainInv'
      BY <1>2, MoveKeeps, StepKeeps, SourceKeeps, ReopenKeeps, CopyKeeps, FillKeeps,
         FinishKeeps, SeekKeeps, CommitKeeps, InvalidateKeeps, LeaveKeeps, StandKeeps
         DEF DecodeNext
    <2> QED
      BY <2>2, <2>3
  <1> QED
    BY <1>1, <1>2

(***************************************************************************)
(* The end of the stream.  A caller that passes Opus a slice without room  *)
(* is told of the end while frames are pending, so nobody does.            *)
(***************************************************************************)
LEMMA EndStands ==
  ASSUME EndIsTheEnd, UNCHANGED outputs,
         (Idle /\ state = "Ended")' =>
            Idle /\ state = "Ended" /\ Position(codec') = Position(codec)
  PROVE  EndIsTheEnd'
  BY DEF EndIsTheEnd

LEMMA EndReturned ==
  ASSUME WorkerInv, EndIsTheEnd,
         NEW from \in Int, NEW to \in Int, NEW ended \in BOOLEAN,
         Returned(codec, from, to, ended),
         state # "Ended", ended => to = Frames /\ Position(codec) = Frames
  PROVE  EndIsTheEnd'
  <1> DEFINE o == [generation |-> generation, from |-> from, to |-> to, ended |-> ended]
  <1>1. /\ outputs' = Append(outputs, o) /\ UNCHANGED codec
        /\ state' = "Ended" => ended
        /\ o.to = to /\ o.ended = ended
    BY DEF Returned
  <1> HIDE DEF o
  <1>2. outputs \in Seq(Outputs)
    BY DEF WorkerInv, DecodeType
  <1>3. \A i \in DOMAIN outputs' : (i \in DOMAIN outputs /\ outputs'[i] = outputs[i])
                                     \/ outputs'[i] = o
    BY <1>1, <1>2
  <1> QED
    BY <1>1, <1>3 DEF EndIsTheEnd

LEMMA EndKeeps ==
  ASSUME ~EmptySlices, WorkerInv, ChainInv, EndIsTheEnd, DecodeNext \/ UNCHANGED decodeVars
  PROVE  EndIsTheEnd'
  <1>1. CASE ReadSource \/ ReopenSource \/ CopyFrames \/ FillPending \/ CommitSeek
    <2>1. UNCHANGED outputs
      BY <1>1 DEF ReadSource, ReopenSource, CopyFrames, FillPending, CommitSeek, FailTo
    <2>2. call \in CallRecords /\ call # NoCall
      BY <1>1, NoCallType DEF ReadSource, ReopenSource, CopyFrames, FillPending,
                              CommitSeek, WorkerInv, DecodeType
    <2>3. state' # "Ended" \/ call' # NoCall
      <3>1. CASE call.op = "Decode"
        <4>1. state = "Running" /\ call.at \in {"Open", "Decode"}
          BY <3>1 DEF WorkerInv, DecodingInv
        <4> QED
          BY <4>1, <1>1 DEF ReadSource, ReopenSource, CopyFrames, FillPending,
                            CommitSeek, FailTo
      <3>2. CASE call.op = "Seek"
        <4>1. call.resume # "Ended"
          BY <2>2 DEF CallRecords
        <4>2. /\ [call EXCEPT !.at = call.op].op = "Seek"
              /\ [call EXCEPT !.at = "Open"].op = "Seek"
          BY <2>2, <3>2 DEF CallRecords
        <4>3. call.at \notin {"Decode"}
          BY <3>2 DEF WorkerInv, SeekingInv
        <4> QED
          BY <4>1, <4>2, <4>3, <1>1, NoCallType
             DEF ReadSource, ReopenSource, CopyFrames, FillPending, CommitSeek, FailTo
      <3> QED
        BY <2>2, <3>1, <3>2 DEF WorkerInv, CallRecords
    <2> QED
      BY <2>1, <2>3, EndStands DEF Idle
  <1>2. CASE StartWorker \/ Pause \/ Resume \/ Cancel \/ Close
    <2>1. UNCHANGED outputs /\ state' # "Ended"
      BY <1>2 DEF StartWorker, Pause, Resume, MoveTo, Cancel, Close
    <2> QED
      BY <2>1, EndStands
  <1>3. ASSUME NEW target \in 0 .. Frames, NEW reopen \in BOOLEAN, Seek(target, reopen)
        PROVE  EndIsTheEnd'
    <2>1. UNCHANGED outputs /\ call = NoCall
      BY <1>3 DEF Seek, Idle
    <2>2. state' # "Ended" \/ call' # NoCall
      <3>1. CASE state' = "Cancelled"
        BY <3>1
      <3>2. CASE call' = [NoCall EXCEPT !.op = "Seek", !.target = target,
                            !.resume = AfterSeek,
                            !.at = IF reopen THEN "Reopen"
                                   ELSE IF codec.open THEN "Seek" ELSE "Open"]
        <4>1. call'.op = "Seek"
          BY <3>2, NoCallType DEF CallRecords
        <4> QED
          BY <4>1, NoCallType
      <3> QED
        BY <1>3, <3>1, <3>2 DEF Seek
    <2> QED
      BY <2>1, <2>2, EndStands DEF Idle
  <1>4. CASE InvalidateGeneration \/ CancelToken \/ UNCHANGED decodeVars
    <2>1. UNCHANGED <<outputs, state, call, codec>>
      BY <1>4 DEF InvalidateGeneration, CancelToken, decodeVars
    <2> QED
      BY <2>1, EndStands DEF Idle
  <1>5. CASE TakeOutput
    <2>1. /\ outputs' = Tail(outputs) /\ outputs # <<>> /\ outputs \in Seq(Outputs)
          /\ UNCHANGED <<state, call, codec>>
      BY <1>5 DEF TakeOutput, WorkerInv, DecodeType
    <2>2. \A i \in DOMAIN outputs' :
            i + 1 \in DOMAIN outputs /\ outputs'[i] = outputs[i + 1]
      BY <2>1
    <2> QED
      BY <2>1, <2>2 DEF EndIsTheEnd, Idle
  <1>6. ASSUME NEW room \in Rooms, DecodeStep(room)
        PROVE  EndIsTheEnd'
    <2>1. /\ Idle /\ state = "Running" /\ CodecInv(codec) /\ codec \in CodecRecords
          /\ room = 0 => codec.kind # "Opus"
      BY <1>6 DEF DecodeStep, Live, WorkerInv, CodecInv
    <2>2. CASE UNCHANGED outputs /\ state' # "Ended"
      BY <2>2, EndStands
    <2>3. CASE /\ room = 0
               /\ Returned(codec, Position(codec), Position(codec), EndOfStream(codec, 0))
      <3>1. Position(codec) \in Int /\ EndOfStream(codec, 0) \in BOOLEAN
        BY <2>1, PositionType DEF EndOfStream, CodecRecords
      <3>2. EndOfStream(codec, 0) => codec.eof /\ Remaining(codec) = 0
        BY <2>1, <2>3 DEF EndOfStream, CodecInv, OpenInv, CodecRecords, Kinds
      <3>3. EndOfStream(codec, 0) => Position(codec) = Frames
        BY <3>2, <2>1, EndedAtFrames
      <3> QED
        BY <2>1, <2>3, <3>1, <3>3, EndReturned
    <2> QED
      BY <1>6, <2>1, <2>2, <2>3 DEF DecodeStep
  <1>7. CASE FinishDecode
    <2> DEFINE from == IF Written = 0 THEN Position(codec) ELSE call.from
               to == IF Written = 0 THEN Position(codec) ELSE call.to
               ended == EndOfStream(codec, call.room)
    <2>1. /\ call \in CallRecords /\ call.op = "Decode" /\ state = "Running" /\ Live
          /\ codec \in CodecRecords /\ CodecInv(codec) /\ call.room > 0
          /\ Written \in 0 .. call.room /\ call.room \in Int
          /\ Written > 0 => call.to = Position(codec)
      BY <1>7, NoCallType DEF FinishDecode, WorkerInv, DecodeType, CallRecords,
                              DecodingInv, SeekingInv, Live
    <2>2. from \in Int /\ to \in Int /\ ended \in BOOLEAN /\ to = Position(codec)
      BY <2>1, PositionType DEF CallRecords, EndOfStream, CodecRecords
    <2>3. ended => Position(codec) = Frames
      <3>1. ended => codec.eof /\ Remaining(codec) = 0
        BY <2>1 DEF EndOfStream
      <3> QED
        BY <3>1, <2>1, EndedAtFrames
    <2>4. Returned(codec, from, to, ended)
      BY <1>7 DEF FinishDecode
    <2> HIDE DEF from, to, ended
    <2> QED
      BY <2>1, <2>2, <2>3, <2>4, EndReturned
  <1> QED
    BY <1>1, <1>2, <1>3, <1>4, <1>5, <1>6, <1>7 DEF DecodeNext

LEMMA DecodeInvHolds == EngineSpec => [](WorkerInv /\ ChainInv)
  <1>1. Init => WorkerInv /\ ChainInv
    BY DecodeStarts DEF Init
  <1>2. WorkerInv /\ ChainInv /\ [Next]_engineVars => (WorkerInv /\ ChainInv)'
    <2> SUFFICES ASSUME WorkerInv, ChainInv, [Next]_engineVars
                 PROVE  WorkerInv' /\ ChainInv'
      OBVIOUS
    <2>1. DecodeNext \/ UNCHANGED decodeVars
      BY DEF Next, engineVars
    <2> QED
      BY <2>1, DecodeKeeps
  <1> QED
    BY <1>1, <1>2, PTL DEF EngineSpec

\* What a consumer accepts of one generation is one run of frames, which begins
\* at the target of the seek that committed it, for any stream, codec, slices
\* and bounds (decoder.rs:451).
THEOREM AcceptedFramesStayInLine == EngineSpec => AcceptedFramesFollow
  <1>1. WorkerInv /\ ChainInv /\ [Next]_engineVars =>
          [accepted' # accepted =>
             accepted'.from = IF accepted'.generation = accepted.generation
                              THEN accepted.to ELSE origin]_decodeVars
    <2> SUFFICES ASSUME WorkerInv, ChainInv, [Next]_engineVars PROVE ConsumerGoesOn
      BY DEF ConsumerGoesOn
    <2>1. DecodeNext \/ UNCHANGED decodeVars
      BY DEF Next, engineVars
    <2> QED
      BY <2>1, DecodeKeeps
  <1> QED
    BY <1>1, DecodeInvHolds, PTL DEF EngineSpec, AcceptedFramesFollow

\* The worker ends, and says so in an output, only when every frame of the file
\* has been delivered, for any stream and slices, unless a caller passes Opus a
\* slice without room (decoder.rs:358).
THEOREM EndStaysTheEnd == ASSUME ~EmptySlices PROVE EngineSpec => []EndIsTheEnd
  <1>1. Init => EndIsTheEnd
    BY DEF Init, DecodeInit, EndIsTheEnd
  <1>2. EndIsTheEnd /\ WorkerInv /\ ChainInv /\ [Next]_engineVars => EndIsTheEnd'
    <2> SUFFICES ASSUME EndIsTheEnd, WorkerInv, ChainInv, [Next]_engineVars PROVE EndIsTheEnd'
      OBVIOUS
    <2>1. DecodeNext \/ UNCHANGED decodeVars
      BY DEF Next, engineVars
    <2> QED
      BY <2>1, EndKeeps
  <1> QED
    BY <1>1, <1>2, DecodeInvHolds, PTL DEF EngineSpec
================================================================================
