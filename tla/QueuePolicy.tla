---------------------------- MODULE QueuePolicy ----------------------------
(***************************************************************************)
(* Two more answers of aurorix-playback to the question of what plays      *)
(* next: the queue policy (queue_policy.rs), a second queue that keeps no  *)
(* order of play but makes it afresh for every move, and the failure       *)
(* policy (failure.rs), which decides over a list the caller gives it.     *)
(* Neither is called by the pipeline; QueueCalls compares them with the    *)
(* PlaybackQueue that is.                                                   *)
(*                                                                         *)
(* Indexes count from 1 and 0 stands for None, as in PlaybackQueue, whose  *)
(* results and transitions are used here, too: Ended is EndOfQueue, and a  *)
(* transition names no place in the order.                                 *)
(***************************************************************************)
EXTENDS Naturals, SequencesExt

CONSTANTS MaxItems, Seeds, Draw,
          DefaultThreshold        \* PREVIOUS_RESTART_THRESHOLD_US

Q == INSTANCE PlaybackQueue

NewPolicy ==
  [items |-> <<>>, current |-> 0, shuffle |-> FALSE, seed |-> 0, repeat |-> "Off"]

\* The index is looked at before the tracks change, unlike in PlaybackQueue.
SetItems(p, items, current) ==
  IF current > Len(items) THEN Q!Returns(p, FALSE)
  ELSE Q!Returns([p EXCEPT !.items = items, !.current = current], TRUE)

FromItems(items, current) == SetItems(NewPolicy, items, current)

\* The first of the tracks with this identity.
SelectItem(p, item) ==
  LET index == SelectInSeq(p.items, LAMBDA i : i = item) IN
  IF index = 0 THEN Q!Returns(p, FALSE)
               ELSE Q!Returns([p EXCEPT !.current = index], TRUE)

SetShuffle(p, on, seed) == [p EXCEPT !.shuffle = on, !.seed = seed]
SetRepeat(p, mode)      == [p EXCEPT !.repeat = mode]

\* The order of play, drawn again from the seed.
EffectiveIndices(p) == Q!OrderFor(p)
-----------------------------------------------------------------------------
(* Moves. *)

Answers(p, kind)    == [policy |-> p, kind |-> kind, index |-> p.current]
TellsNone(p, kind)  == [policy |-> p, kind |-> kind, index |-> 0]
Selects(p, index)   == Answers([p EXCEPT !.current = index], "Selected")

\* Where the order plays the current track; nothing selected counts as first.
CurrentPosition(p, order) ==
  IF p.current = 0 THEN 1 ELSE SelectInSeq(order, LAMBDA i : i = p.current)

Advance(p) ==
  LET order == EffectiveIndices(p)
      place == CurrentPosition(p, order)
  IN
  IF p.items = <<>>            THEN TellsNone(p, "Empty")
  ELSE IF p.current = 0        THEN Selects(p, order[1])
  ELSE IF place < Len(order)   THEN Selects(p, order[place + 1])
  ELSE IF p.repeat = "All"     THEN Selects(p, order[1])
  ELSE TellsNone(p, "Ended")

OnItemCompleted(p) ==
  IF p.items = <<>> \/ p.current = 0 THEN TellsNone(p, "Empty")
  ELSE IF p.repeat = "One"           THEN Answers(p, "RestartCurrent")
  ELSE Advance(p)

\* Before the first place there is the last one, or the first one again.
Previous(p) ==
  LET order == EffectiveIndices(p)
      place == CurrentPosition(p, order)
  IN
  IF p.items = <<>>          THEN TellsNone(p, "Empty")
  ELSE IF place > 1          THEN Selects(p, order[place - 1])
  ELSE IF p.repeat = "All"   THEN Selects(p, order[Len(order)])
  ELSE Answers(p, "RestartCurrent")

PreviousAt(p, pos) ==
  IF p.items = <<>>                THEN TellsNone(p, "Empty")
  ELSE IF p.current = 0            THEN Advance(p)
  ELSE IF pos > DefaultThreshold   THEN Answers(p, "RestartCurrent")
  ELSE Previous(p)
-----------------------------------------------------------------------------
(* The failure policy.  A policy is the set of failures it goes on after,   *)
(* besides Skip; the default stops when the output itself is gone.          *)

Failures     == {"SourceLoss", "DecoderError", "OutputUnavailable"}
DefaultLocal == {"SourceLoss", "DecoderError"}

ContinuesAfter(policy, failure) == failure \in policy \cup {"Skip"}

EndReason(failure) ==
  CASE failure = "Skip"     -> "Skipped"
    [] failure = "Stop"     -> "Stopped"
    [] failure \in Failures -> "Error"

NextAction(list, index) ==
  IF index < Len(list)
  THEN [kind |-> "Continue", index |-> index + 1, exhausted |-> FALSE]
  ELSE [kind |-> "Stop", index |-> 0, exhausted |-> TRUE]

StopAction == [kind |-> "Stop", index |-> 0, exhausted |-> FALSE]

\* The caller's view is stale when the item is not at the index it gives.
IsCurrentItem(item, list, index) == index \in DOMAIN list /\ list[index] = item

\* decide, skip and stop.  Nothing durable is deleted by any of them.
Decide(policy, failure, item, list, index) ==
  IF ~IsCurrentItem(item, list, index)
  THEN [ok |-> FALSE, reason |-> "None", action |-> StopAction]
  ELSE [ok |-> TRUE, reason |-> EndReason(failure),
        action |-> IF ContinuesAfter(policy, failure)
                   THEN NextAction(list, index) ELSE StopAction]
=============================================================================
