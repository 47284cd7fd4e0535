----------------------------- MODULE RealtimePorts -----------------------------
(***************************************************************************)
(* What leaves the output callback besides sound (realtime.rs): the        *)
(* compact clock, a sequence lock with one writer and many readers, and    *)
(* the coalescing cells for underruns.  A coordinator takes them and       *)
(* recovers (RecoveryCoordinator); a boundary reaches the callback as a    *)
(* new timeline.  Each atomic access is a step of its own.                 *)
(***************************************************************************)
EXTENDS RecoveryCoordinator

CONSTANTS
  Readers,      \* threads that read the clock
  MaxRenders    \* bound: renders

VARIABLES
  sequence,     \* CompactClockPublisher.sequence
  cell,         \* its atomics: clock epoch, rendered and media frames
  signals,      \* RealtimeSignals
  timeline,     \* RealtimeConsumer.timeline and rendered_frames
  callback,     \* where the callback is, and what it publishes
  reader,       \* where each reader is, and what it has loaded
  coordinator,  \* where the coordinator is, and the sequence it has loaded
  recovery,     \* RecoveryCoordinator
  renders,      \* renders so far
  published,    \* history: the samples published whole
  recorded,     \* history: missing frames recorded, and those in boundaries
  covered       \* history: the last underrun the coordinator knows of

clock == <<sequence, cell, timeline>>
portVars == <<sequence, cell, signals, timeline, callback, reader, coordinator,
              recovery, renders, published, recorded, covered>>

Fields == <<"epoch", "rendered", "media">>
FieldCount == 3
Sample(epoch, rendered, media) ==
  [epoch |-> epoch, rendered |-> rendered, media |-> media]
NoSample == Sample(0, 0, 0)

PortInit ==
  /\ sequence = 0
  /\ cell = NoSample
  /\ signals = [pending |-> FALSE, sequence |-> 0, missing |-> 0]
  /\ timeline = NoSample
  /\ callback = [at |-> "Idle", silent |-> 0, field |-> 1]
  /\ reader = [r \in Readers |-> [at |-> "Idle", before |-> 0, field |-> 1,
                                  sample |-> NoSample, latest |-> NoSample]]
  /\ coordinator = [at |-> "Idle", sequence |-> 0]
  /\ recovery = NewCoordinator(CHOOSE rate \in Rates : TRUE)
  /\ renders = 0
  /\ published = {NoSample}
  /\ recorded = [all |-> 0, boundaries |-> 0]
  /\ covered = 0

(***************************************************************************)
(* The callback: render publishes an underrun first, then the clock.  The   *)
(* fault cell, one exchange on each side, is left out.                     *)
(***************************************************************************)

\* render fills what it can, and counts. A misaligned slice is all silence,
\* reports a fault and no underrun, and publishes the clock where it stands, as
\* a slice of no frames does.
Render(requested, copied) ==
  /\ callback.at = "Idle" /\ renders < MaxRenders
  /\ renders' = renders + 1
  /\ timeline' = Sample(timeline.epoch, timeline.rendered + requested,
                        timeline.media + copied)
  /\ callback' = [at |-> IF copied < requested THEN "Missing" ELSE "Clock",
                  silent |-> requested - copied, field |-> 1]
  /\ UNCHANGED <<sequence, cell, signals, reader, coordinator, recovery,
                 published, recorded, covered>>

Publishes(from, to, cells) ==
  /\ callback.at = from
  /\ signals' = cells
  /\ callback' = [callback EXCEPT !.at = to]
  /\ UNCHANGED <<clock, reader, coordinator, recovery, renders, published,
                 recorded, covered>>

StoreMissing == Publishes("Missing", "Sequence",
                          [signals EXCEPT !.missing = callback.silent])
CountUnderrun == Publishes("Sequence", "Pending",
                           [signals EXCEPT !.sequence = @ + 1])
RaiseUnderrun == Publishes("Pending", "Clock", [signals EXCEPT !.pending = TRUE])

\* publish: the sequence is odd while the fields are stored one by one.
BeginClock ==
  /\ callback.at = "Clock"
  /\ sequence' = sequence + 1
  /\ callback' = [callback EXCEPT !.at = "Fields"]
  /\ UNCHANGED <<cell, signals, timeline, reader, coordinator, recovery, renders,
                 published, recorded, covered>>

StoreField ==
  /\ callback.at = "Fields" /\ callback.field <= FieldCount
  /\ cell' = [cell EXCEPT ![Fields[callback.field]] = timeline[Fields[callback.field]]]
  /\ callback' = [callback EXCEPT !.field = @ + 1]
  /\ UNCHANGED <<sequence, signals, timeline, reader, coordinator, recovery, renders,
                 published, recorded, covered>>

EndClock ==
  /\ callback.at = "Fields" /\ callback.field > FieldCount
  /\ sequence' = sequence + 1
  /\ published' = published \cup {cell}
  /\ callback' = [callback EXCEPT !.at = "Idle"]
  /\ UNCHANGED <<cell, signals, timeline, reader, coordinator, recovery, renders,
                 recorded, covered>>

(***************************************************************************)
(* try_latest.                                                             *)
(***************************************************************************)
Reads(r, record) ==
  /\ reader' = [reader EXCEPT ![r] = record]
  /\ UNCHANGED <<clock, signals, callback, coordinator, recovery, renders,
                 published, recorded, covered>>

LoadBefore(r) ==
  /\ reader[r].at = "Idle" /\ sequence % 2 = 0
  /\ Reads(r, [reader[r] EXCEPT !.at = "Fields", !.before = sequence, !.field = 1])

LoadField(r) ==
  /\ reader[r].at = "Fields" /\ reader[r].field <= FieldCount
  /\ LET name == Fields[reader[r].field] IN
       Reads(r, [reader[r] EXCEPT !.sample[name] = cell[name], !.field = @ + 1])

\* A mutant looks only whether a publication is going on now.
MutantStillThat(r) == sequence % 2 = 0

StillThat(r) == sequence = reader[r].before

LoadAfter(r) ==
  /\ reader[r].at = "Fields" /\ reader[r].field > FieldCount
  /\ Reads(r, [reader[r] EXCEPT !.at = "Idle", !.sample = NoSample, !.before = 0,
                  !.field = 1,
                  !.latest = IF StillThat(r) THEN reader[r].sample ELSE @])

(***************************************************************************)
(* The coordinator: take_underrun and the boundaries.          *)
(***************************************************************************)
Coordinates(place, loaded) ==
  /\ coordinator' = [at |-> place, sequence |-> loaded]
  /\ UNCHANGED <<clock, callback, reader, renders, published>>

TakeUnderrun ==
  /\ coordinator.at = "Idle" /\ signals.pending
  /\ signals' = [signals EXCEPT !.pending = FALSE]
  /\ Coordinates("Taken", 0)
  /\ UNCHANGED <<recovery, recorded, covered>>

LoadSequence ==
  /\ coordinator.at = "Taken"
  /\ Coordinates("Sequenced", signals.sequence)
  /\ UNCHANGED <<signals, recovery, recorded, covered>>

\* A mutant clears the flag when it is done, once more.
MutantRecordTaken ==
  /\ coordinator.at = "Sequenced"
  /\ recovery' = RecordUnderrun(recovery, signals.missing)
  /\ recorded' = [recorded EXCEPT !.all = @ + signals.missing]
  /\ covered' = coordinator.sequence
  /\ signals' = [signals EXCEPT !.pending = FALSE]
  /\ Coordinates("Idle", 0)

\* The length is loaded and recorded.
RecordTaken ==
  /\ coordinator.at = "Sequenced"
  /\ recovery' = RecordUnderrun(recovery, signals.missing)
  /\ recorded' = [recorded EXCEPT !.all = @ + signals.missing]
  /\ covered' = coordinator.sequence
  /\ Coordinates("Idle", 0)
  /\ UNCHANGED signals

Bounds(next) ==
  /\ coordinator.at = "Idle"
  /\ recovery' = next
  /\ Coordinates("Idle", 0)
  /\ UNCHANGED <<signals, recorded, covered>>

\* recover_underrun, and what its boundary says.
Recover ==
  /\ coordinator.at = "Idle" /\ recovery.underrun # NoUnderrun
  /\ recovery' = RecoverUnderrun(recovery)
  /\ recorded' = IF Exhausted(recovery) THEN recorded
                 ELSE [recorded EXCEPT !.boundaries = @ + recovery'.last.underrun.total]
  /\ Coordinates("Idle", 0)
  /\ UNCHANGED <<signals, covered>>

Boundary ==
  \/ Bounds(EnterBuffering(recovery))
  \/ Bounds(RestartOutput(recovery))
  \/ \E rate \in Rates : Bounds(ChangeSampleRate(recovery, rate))
  \/ Bounds(RebuildGraph(recovery))

Ready == Bounds(MarkReady(recovery))

\* reset_timeline, which the caller keeps apart from render.
ResetTimeline ==
  /\ callback.at = "Idle" /\ timeline.epoch < recovery.epoch
  /\ timeline' = Sample(recovery.epoch, 0, timeline.media)
  /\ UNCHANGED <<sequence, cell, signals, callback, reader, coordinator, recovery,
                 renders, published, recorded, covered>>

CallbackStep ==
  \/ StoreMissing \/ CountUnderrun \/ RaiseUnderrun
  \/ BeginClock \/ StoreField \/ EndClock

CoordinatorStep == TakeUnderrun \/ LoadSequence \/ RecordTaken

\* Every step but render and reset_timeline, which belong to the output.
PortStep ==
  \/ CallbackStep
  \/ \E r \in Readers : LoadBefore(r) \/ LoadField(r) \/ LoadAfter(r)
  \/ CoordinatorStep
  \/ Recover \/ Boundary \/ Ready

-----------------------------------------------------------------------------

\* What try_latest returns was published as a whole, and a reader never sees a
\* timeline go back (realtime.rs:70).
ClockIsCoherent ==
  [][\A r \in Readers : LET old == reader[r].latest
                             new == reader'[r].latest IN
       new # old =>
         /\ new \in published
         /\ \/ new.epoch > old.epoch
            \/ /\ new.epoch = old.epoch
               /\ new.rendered >= old.rendered /\ new.media >= old.media]_portVars

\* Every missing frame the coordinator has recorded is waiting or is in exactly
\* one boundary, also when other boundaries come in between and when the
\* counters can go no further (recovery.rs:283).
UnderrunsAreAccounted ==
  recorded.all = recorded.boundaries + recovery.underrun.total

\* An underrun is never lost between the callback and the coordinator: once
\* the callback has told of it, the flag stands or the coordinator has recorded
\* the last one (realtime.rs:221).
UnderrunIsNeverLost ==
  coordinator.at = "Idle" /\ callback.at \notin {"Missing", "Sequence", "Pending"} =>
    signals.pending \/ covered = signals.sequence
================================================================================
