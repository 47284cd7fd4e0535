------------------------- MODULE PresentationClock -------------------------
(***************************************************************************)
(* The presentation clock of aurorix-playback (clock.rs): the one timeline *)
(* the UI, the lyrics and the play history read.  A clock is a record and  *)
(* every operation maps a clock to a clock, as the &mut self methods do.   *)
(*                                                                         *)
(* The rate is 1 and the sample rate is one frame per position unit: media *)
(* positions are counted in frames.  The u64 exhaustion errors (2^64       *)
(* epochs or frames) are out of the bounds of every model.                 *)
(***************************************************************************)
EXTENDS Naturals

NoReason == "None"

\* The changes of rate (set_playback_rate, set_output_sample_rate), which nothing
\* in the session calls, and their two reasons are left out.
DiscontinuityReasons ==
  {"Seek", "Pause", "Resume", "SourceTransition", "OutputRestart",
   "UnderrunRecovery", "Stop"}

Clocks ==
  [epoch : Nat, frames : Nat, base : Nat, position : Nat,
   reason : DiscontinuityReasons \cup {NoReason}]

NewClock ==
  [epoch |-> 0, frames |-> 0, base |-> 0, position |-> 0, reason |-> NoReason]

\* Every discontinuity starts an epoch at a position and waits to be observed.
BeginEpoch(c, why, pos) ==
  [epoch |-> c.epoch + 1, frames |-> 0, base |-> pos, position |-> pos,
   reason |-> why]

\* Mutant: a pause that forgets the frames rendered in this epoch.
MutantPauseBoundary(c)   == BeginEpoch(c, "Pause", c.base)

SeekTo(c, pos)           == BeginEpoch(c, "Seek", pos)
PauseBoundary(c)         == BeginEpoch(c, "Pause", c.position)
ResumeBoundary(c)        == BeginEpoch(c, "Resume", c.position)
SourceTransition(c, pos) == BeginEpoch(c, "SourceTransition", pos)
OutputRestart(c)         == BeginEpoch(c, "OutputRestart", c.position)
UnderrunRecovery(c)      == BeginEpoch(c, "UnderrunRecovery", c.position)
StopBoundary(c)          == BeginEpoch(c, "Stop", 0)

\* The position is recomputed from the base of the epoch, never accumulated.
AdvanceRenderedFrames(c, n) ==
  [epoch |-> c.epoch, frames |-> c.frames + n, base |-> c.base,
   position |-> c.base + (c.frames + n), reason |-> c.reason]

AcknowledgeDiscontinuity(c) == [c EXCEPT !.reason = NoReason]
=============================================================================
