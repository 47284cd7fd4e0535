-------------------------- MODULE RecoveryCoordinator --------------------------
(***************************************************************************)
(* The worker-side recovery coordinator (recovery.rs) as functions of its  *)
(* record: each boundary moves the clock epoch and the buffer generation,  *)
(* and an underrun boundary takes all underruns merged so far with it.     *)
(***************************************************************************)
EXTENDS Integers

CONSTANTS
  Rates,      \* output sample rates
  LastEpoch   \* the largest value of the two counters

ASSUME CoordinatorAssumption == Rates # {} /\ LastEpoch \in Nat

RecoveryCauses ==
  {"Underrun", "OutputRestart", "SampleRateChange", "GraphRebuild", "Buffering"}
NoUnderrun == [count |-> 0, total |-> 0, largest |-> 0]
NoTransition == [epoch |-> 0, cause |-> "None", rate |-> 0, underrun |-> NoUnderrun]

NewCoordinator(rate) ==
  [state |-> "Ready", epoch |-> 0, generation |-> 0, rate |-> rate,
   underrun |-> NoUnderrun, last |-> NoTransition]

Exhausted(c) == c.epoch = LastEpoch \/ c.generation = LastEpoch

\* commit_transition; at the end of a counter nothing changes.
Committed(c, cause, state, rate, underrun) ==
  [state |-> state, epoch |-> c.epoch + 1, generation |-> c.generation + 1,
   rate |-> rate, underrun |-> c.underrun,
   last |-> [epoch |-> c.epoch + 1, cause |-> cause, rate |-> rate,
             underrun |-> underrun]]

CommitTransition(c, cause, state, rate, underrun) ==
  IF Exhausted(c) THEN c ELSE Committed(c, cause, state, rate, underrun)

\* UnderrunSummary::first and merge, for one positive observation.
RecordUnderrun(c, missing) ==
  [c EXCEPT !.underrun = [count |-> @.count + 1, total |-> @.total + missing,
                          largest |-> IF missing > @.largest THEN missing ELSE @.largest]]

EnterBuffering(c) ==
  IF c.state = "Buffering" /\ c.last.cause = "Buffering" THEN c
  ELSE CommitTransition(c, "Buffering", "Buffering", c.rate, NoUnderrun)

\* A mutant forgets the underruns although no boundary took them.
MutantRecoverUnderrun(c) ==
  [CommitTransition(c, "Underrun", "Recovering", c.rate, c.underrun)
     EXCEPT !.underrun = NoUnderrun]

RecoverUnderrun(c) ==
  IF c.underrun = NoUnderrun \/ Exhausted(c) THEN c
  ELSE [Committed(c, "Underrun", "Recovering", c.rate, c.underrun)
          EXCEPT !.underrun = NoUnderrun]

RestartOutput(c) ==
  CommitTransition(c, "OutputRestart", "OutputRestarting", c.rate, NoUnderrun)

\* An unchanged rate is refused.
ChangeSampleRate(c, rate) ==
  IF rate = c.rate THEN c
  ELSE CommitTransition(c, "SampleRateChange", "Buffering", rate, NoUnderrun)

RebuildGraph(c) ==
  CommitTransition(c, "GraphRebuild", "GraphRebuilding", c.rate, NoUnderrun)

MarkReady(c) == [c EXCEPT !.state = "Ready"]
================================================================================
