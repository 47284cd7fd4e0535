--------------------------- MODULE PlaybackQueue ---------------------------
(***************************************************************************)
(* The playback queue of aurorix-playback (queue.rs): the tracks in their  *)
(* logical order, the order they are played in, the current one, and the   *)
(* shuffle and repeat policies.  A queue is a record and every method maps *)
(* a queue to a queue; QueueCalls makes a state machine of them.           *)
(*                                                                         *)
(* Indexes count from 1 here and 0 stands for None.  Shuffling draws from  *)
(* splitmix64, whose outputs are the constant Draw.                        *)
(***************************************************************************)
EXTENDS Naturals, SequencesExt

CONSTANTS
  MaxItems,          \* bound: tracks in a queue
  Seeds,             \* shuffle seeds; 0 is the one of a new queue
  Draw,              \* Draw[seed][k]: the k-th output of splitmix64
  DefaultThreshold   \* from here Previous restarts the track

ASSUME PlaybackQueueAssumption ==
  /\ MaxItems \in Nat
  /\ Draw \in [Seeds -> [1 .. MaxItems -> Nat]]
  /\ 0 \in Seeds
  /\ DefaultThreshold \in Nat

RepeatModes    == {"Off", "One", "All"}
AdvanceReasons == {"ManualNext", "Completed"}

NewQueue ==
  [items |-> <<>>, order |-> <<>>, current |-> 0, position |-> 0,
   shuffle |-> FALSE, seed |-> 0, repeat |-> "Off",
   threshold |-> DefaultThreshold]
-----------------------------------------------------------------------------
(* The order of play. *)

MutantSwapped(s, i, j) == [s EXCEPT ![i] = s[j]]   \* mutant: half a swap
Swapped(s, i, j) == [s EXCEPT ![i] = s[j], ![j] = s[i]]

\* The Fisher-Yates shuffle of 1 .. n, from the last place down to the second.
Shuffled(n, seed) ==
  LET place(k) == n + 1 - k
      step[k \in 0 .. n] ==
        IF k = 0
        THEN [i \in 1 .. n |-> i]
        ELSE Swapped(step[k - 1], place(k), 1 + (Draw[seed][k] % place(k)))
  IN step[IF n = 0 THEN 0 ELSE n - 1]

OrderFor(q) ==
  IF q.shuffle THEN Shuffled(Len(q.items), q.seed)
               ELSE [i \in 1 .. Len(q.items) |-> i]

\* Where the order plays the current track (refresh_current_position).
PositionOf(order, current) ==
  IF current = 0 THEN 0 ELSE SelectInSeq(order, LAMBDA i : i = current)

WithCurrent(q, order, current) ==
  [q EXCEPT !.order = order, !.current = current,
            !.position = PositionOf(order, current)]

\* What a method leaves behind and whether it returned Ok.
Returns(q, ok) == [queue |-> q, ok |-> ok]

\* A rebuild checks its index against the tracks already changed, and when the
\* index is outside them it keeps the old order, current track and position.
Rebuild(q, current) ==
  IF current <= Len(q.items)
  THEN Returns(WithCurrent(q, OrderFor(q), current), TRUE)
  ELSE Returns(q, FALSE)

\* A shuffled queue keeps the turns of its tracks, another one is rebuilt.
Reordered(q, order, current) ==
  IF q.shuffle THEN Returns(WithCurrent(q, order, current), TRUE)
               ELSE Rebuild(q, current)
-----------------------------------------------------------------------------
(* Mutations.  The index checks of insert, remove and move_item come first. *)

\* The list is replaced before the index is looked at.
ReplaceItems(q, items, current) == Rebuild([q EXCEPT !.items = items], current)

FromItems(items, current) == ReplaceItems(NewQueue, items, current).queue

MutantAppendItem(q, item) ==                 \* mutant: appending reshuffles
  Rebuild([q EXCEPT !.items = Append(@, item)], q.current)

AppendItem(q, item) ==
  Reordered([q EXCEPT !.items = Append(@, item)],
            Append(q.order, Len(q.items) + 1), q.current)

MutantShiftUp(i, index) == IF i > index THEN i + 1 ELSE i    \* mutant
ShiftUp(i, index) == IF i >= index THEN i + 1 ELSE i

InsertItem(q, index, item) ==
  IF index > Len(q.items) + 1
  THEN Returns(q, FALSE)
  ELSE Reordered([q EXCEPT !.items = InsertAt(@, index, item)],
                 Append([k \in DOMAIN q.order |-> ShiftUp(q.order[k], index)],
                        index),
                 ShiftUp(q.current, index))

ShiftDown(i, index) == IF i > index THEN i - 1 ELSE i

\* What is left of the order when one index is not retained.
Without(order, index) ==
  LET kept[k \in 0 .. Len(order)] ==
        IF k = 0                  THEN <<>>
        ELSE IF order[k] = index  THEN kept[k - 1]
        ELSE Append(kept[k - 1], order[k])
  IN kept[Len(order)]

\* Removing the current track selects the one that takes its place, or the last.
RemoveItem(q, index) ==
  LET shrunk  == [q EXCEPT !.items = RemoveAt(@, index)]
      others  == Without(q.order, index)
      length  == Len(shrunk.items)
      current == IF length = 0             THEN 0
                 ELSE IF q.current = index THEN Min({index, length})
                 ELSE ShiftDown(q.current, index)
  IN IF index > Len(q.items)
     THEN Returns(q, FALSE)
     ELSE Reordered(shrunk,
                    [k \in DOMAIN others |-> ShiftDown(others[k], index)],
                    current)

RemapAfterMove(i, from, to) ==
  IF i = from                     THEN to
  ELSE IF from < i /\ i <= to     THEN i - 1
  ELSE IF to <= i /\ i < from     THEN i + 1
  ELSE i

MoveItem(q, from, to) ==
  IF from > Len(q.items) \/ to > Len(q.items)
  THEN Returns(q, FALSE)
  ELSE IF from = to THEN Returns(q, TRUE)
  ELSE Reordered([q EXCEPT !.items = InsertAt(RemoveAt(@, from), to, @[from])],
                 [k \in DOMAIN q.order |-> RemapAfterMove(q.order[k], from, to)],
                 IF q.current = 0 THEN 0 ELSE RemapAfterMove(q.current, from, to))

\* The policy is stored before the order is rebuilt around the current track.
SetShuffle(q, enabled, seed) ==
  Rebuild([q EXCEPT !.shuffle = enabled, !.seed = seed], q.current)

SetRepeat(q, mode)   == [q EXCEPT !.repeat = mode]
SetThreshold(q, pos) == [q EXCEPT !.threshold = pos]
-----------------------------------------------------------------------------
(* Selection.  A transition tells the caller what to do with the track.     *)

NoTrack(kind) == [kind |-> kind, index |-> 0, position |-> 0]

\* A selection that names no track of the queue is reported as Empty.
Transition(q, kind) ==
  IF q.current \in DOMAIN q.items /\ q.position # 0
  THEN [kind |-> kind, index |-> q.current, position |-> q.position]
  ELSE NoTrack("Empty")

\* A queue, and the transition it returned.
Moves(q, kind) == [queue |-> q, transition |-> Transition(q, kind)]
Stays(q, kind) == [queue |-> q, transition |-> NoTrack(kind)]

\* The queue at a place of its order.
At(q, place) == [q EXCEPT !.position = place, !.current = q.order[place]]

Select(q, index) == Moves(WithCurrent(q, q.order, index), "Selected")

First(q) ==
  IF q.order = <<>>
  THEN Stays([q EXCEPT !.position = 0, !.current = 0], "Empty")
  ELSE Moves(At(q, 1), "Selected")

\* At the end of the order the queue stays on its last track.
AdvanceNext(q, reason) ==
  IF q.position = 0 THEN First(q)
  ELSE IF reason = "Completed" /\ q.repeat = "One" THEN Moves(q, "RestartCurrent")
  ELSE IF q.position < Len(q.order) THEN Moves(At(q, q.position + 1), "Selected")
  ELSE IF q.repeat = "All" THEN Moves(At(q, 1), "Selected")
  ELSE Stays(q, "Ended")

\* Past the threshold, or with nothing before it, the track starts again.
Previous(q, pos) ==
  IF q.position = 0            THEN Stays(q, "Empty")
  ELSE IF pos > q.threshold    THEN Moves(q, "RestartCurrent")
  ELSE IF q.position > 1       THEN Moves(At(q, q.position - 1), "Selected")
  ELSE IF q.repeat = "All"     THEN Moves(At(q, Len(q.order)), "Selected")
  ELSE Moves(q, "RestartCurrent")
=============================================================================
