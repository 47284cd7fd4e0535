---------------------------- MODULE MediaControls ----------------------------
(* The projection of the Core's playback onto the system media controls     *)
(* (src/apps/windows/Aurorix.Platform.Windows/WindowsMediaControlGateway.cs  *)
(* and WindowsMediaControlContracts.cs).  The Core is external: it raises    *)
(* its state version with every change but that of the clock, and its       *)
(* snapshots and clock samples reach the gateway late, twice, out of order  *)
(* or never.  The sink may throw, before or after it shows the projection.  *)
(* Metadata goes with the item; actions of the controls and events of the   *)
(* host, which the gateway passes on, are left out.                          *)
EXTENDS Naturals, FiniteSets

CONSTANTS
  Items, NoItem,
  CoreStates,      \* the states of the Core, from the names of WindowsPlaybackState
  MaxVersion, MaxFrames, MaxSamples,
  NoSnapshot, NoProjection

VARIABLES
  core,            \* the Core's own snapshot
  sent,            \* snapshots on their way
  samples,         \* clock samples on their way, with their sequence
  latest,          \* _latestSnapshot
  applied,         \* _lastAppliedProjection
  lastSequence,    \* _lastProgressSequence
  shown            \* what the sink shows

mediaVars == <<core, sent, samples, latest, applied, lastSequence, shown>>

Clocks == [epoch : Nat, frames : Nat, jump : BOOLEAN]
Snapshots ==
  [item : Items \cup {NoItem}, state : CoreStates, version : Nat, clock : Clocks]

ASSUME MediaAssumption == "Empty" \in CoreStates /\ NoSnapshot \notin Snapshots

Clock(epoch, frames, jump) == [epoch |-> epoch, frames |-> frames, jump |-> jump]
Snapshot(item, state, version, clock) ==
  [item |-> item, state |-> state, version |-> version, clock |-> clock]

WithClock(s, clock) == Snapshot(s.item, s.state, s.version, clock)

MediaInit ==
  /\ core = Snapshot(NoItem, "Empty", 0, Clock(0, 0, FALSE))
  /\ sent = {core} /\ samples = {}
  /\ latest = NoSnapshot /\ applied = NoProjection /\ lastSequence = 0
  /\ shown = NoProjection

-----------------------------------------------------------------------------
(* The projection                                                            *)

Status(s) ==
  CASE s.item = NoItem \/ s.state = "Empty"      -> "Closed"
    [] s.state \in {"Loading", "Buffering"}      -> "Changing"
    [] s.state \in {"Playing", "Paused"}         -> s.state
    [] OTHER                                     -> "Stopped"

\* Every item is one whose metadata has a duration.
EnabledActions(s) ==
  IF s.item = NoItem THEN {}
  ELSE {"Previous", "Next", "Seek"}
       \cup {a \in {"Pause"} : Status(s) = "Playing"}
       \cup {a \in {"Play"} : Status(s) \in {"Changing", "Paused", "Stopped"}}
       \cup {a \in {"Stop"} : s.state \notin {"Stopped", "Ended", "Failed", "Unavailable"}}

Map(s) ==
  [item |-> s.item, status |-> Status(s), actions |-> EnabledActions(s),
   version |-> s.version, epoch |-> s.clock.epoch,
   position |-> IF s.item = NoItem THEN 0 ELSE s.clock.frames,
   jump |-> s.item # NoItem /\ s.clock.jump]

\* The rate and the duration follow from the status and the item.
HasSameNonProgressState(p, q) ==
  <<p.item, p.status, p.actions, p.version, p.epoch>>
    = <<q.item, q.status, q.actions, q.version, q.epoch>>

HasSameFullState(p, q) == p = q

IsAtLeast(c, d) == c.epoch > d.epoch \/ (c.epoch = d.epoch /\ c.frames >= d.frames)

-----------------------------------------------------------------------------
(* The sink, and the gateway's calls to it, all under the gate               *)

Shows(p) ==
  \/ shown' = p /\ applied' = p
  \/ shown' \in {shown, p} /\ UNCHANGED applied     \* it throws

\* Mutant: the projection is remembered before the sink has it.
MutantApplyLocked(p) == shown' \in {shown, p} /\ applied' = p

ApplyLocked(p) == Shows(p)

ShouldApplyImmediately(p) ==
  \/ applied = NoProjection
  \/ ~HasSameNonProgressState(applied, p)
  \/ p.jump /\ ~applied.jump

Merge(s) ==
  /\ latest' = s
  /\ IF ShouldApplyImmediately(Map(s)) THEN ApplyLocked(Map(s))
     ELSE UNCHANGED <<applied, shown>>

\* Mutant: a snapshot of the same version always brings its clock.
MutantMerged(s) == s

\* The Core's clock of one version only goes forward here.
Merged(s) ==
  IF latest # NoSnapshot /\ latest.version = s.version /\ ~IsAtLeast(s.clock, latest.clock)
  THEN WithClock(s, latest.clock) ELSE s

\* A snapshot of the same version that differs in more than its clock throws.
AcceptSnapshot(s) ==
  /\ s \in sent
  /\ latest # NoSnapshot =>
       \/ s.version > latest.version
       \/ s.version = latest.version /\ s = WithClock(latest, s.clock)
  /\ Merge(Merged(s))
  /\ UNCHANGED <<core, sent, samples, lastSequence>>

\* The sequence is used up whether or not the sample passes the other fences.  A
\* new buffer generation comes with a new version, and a position with its frames,
\* so the fence on the one and the comparison of the other are left out.
SampleProgress(m) ==
  /\ m \in samples
  /\ latest # NoSnapshot /\ m.sequence > lastSequence
  /\ lastSequence' = m.sequence
  /\ IF /\ m.version = latest.version /\ m.item = latest.item
        /\ IsAtLeast(m.clock, latest.clock)
     THEN Merge(WithClock(latest, m.clock))
     ELSE UNCHANGED <<latest, applied, shown>>
  /\ UNCHANGED <<core, sent, samples>>

FlushProgress ==
  /\ latest # NoSnapshot
  /\ applied = NoProjection \/ ~HasSameFullState(Map(latest), applied)
  /\ ApplyLocked(Map(latest))
  /\ UNCHANGED <<core, sent, samples, latest, lastSequence>>

-----------------------------------------------------------------------------
(* The Core                                                                  *)

Report(s) == core' = s /\ sent' = sent \cup {s}

\* An item starts with a clock of its own; a jump says the clock did not run on.
CoreChanges(item, state, jump) ==
  /\ core.version < MaxVersion
  /\ state = "Empty" <=> item = NoItem
  /\ <<item, state>> # <<core.item, core.state>>
  /\ jump \/ item = core.item
  /\ Report(Snapshot(item, state, core.version + 1,
                     IF jump THEN Clock(core.clock.epoch + 1, 0, TRUE)
                     ELSE core.clock))

CorePlays ==
  /\ core.state = "Playing" /\ core.clock.frames < MaxFrames
  /\ Report(WithClock(core, Clock(core.clock.epoch, core.clock.frames + 1, FALSE)))

CoreStep ==
  /\ (\E i \in Items \cup {NoItem}, s \in CoreStates, j \in BOOLEAN : CoreChanges(i, s, j))
     \/ CorePlays
  /\ UNCHANGED <<samples, latest, applied, lastSequence, shown>>

\* The host samples the Core's clock.
Sample ==
  LET n == Cardinality(samples) + 1
  IN  /\ n <= MaxSamples
      /\ samples' = samples \cup
           {[sequence |-> n, version |-> core.version, item |-> core.item, clock |-> core.clock]}
      /\ UNCHANGED <<core, sent, latest, applied, lastSequence, shown>>

MediaNext ==
  \/ CoreStep \/ Sample
  \/ \E s \in sent : AcceptSnapshot(s)
  \/ \E m \in samples : SampleProgress(m)
  \/ FlushProgress

\* The host delivers the Core's last snapshot, flushes as it schedules, and the
\* sink does not fail for ever.
MediaFairness ==
  /\ WF_mediaVars(AcceptSnapshot(core))
  /\ WF_mediaVars(FlushProgress /\ applied' # applied)
=============================================================================
