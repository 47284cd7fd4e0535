----------------------------- MODULE QueueCalls -----------------------------
(***************************************************************************)
(* A playback queue (queue.rs) under any sequence of calls.  The queue is  *)
(* used by one thread; what is hard about it is that every mutation must   *)
(* carry the order of play, the current track and its place in that order  *)
(* along, and that a failing call may stop half way.                       *)
(***************************************************************************)
EXTENDS PlaybackQueue

CONSTANTS
  Items,             \* media identities; a queue may hold one twice
  Positions,         \* playback positions and restart thresholds
  CheckedReplace     \* callers give Replace no index outside the new tracks

ASSUME QueueCallsAssumption ==
  /\ Positions \subseteq Nat
  /\ CheckedReplace \in BOOLEAN

Policy == INSTANCE QueuePolicy

VARIABLES
  queue,     \* PlaybackQueue
  outcome    \* the transition, Done or Error the last call returned

qvars == <<queue, outcome>>

Indexes == 0 .. MaxItems
Places  == 1 .. MaxItems

Init ==
  /\ \E items \in SeqOf(Items, MaxItems), current \in Indexes :
       /\ current <= Len(items)
       /\ queue = FromItems(items, current)
  /\ outcome = NoTrack("Done")

Answered(result) ==
  /\ queue' = result.queue
  /\ outcome' = NoTrack(IF result.ok THEN "Done" ELSE "Error")

Told(result) ==
  /\ queue' = result.queue
  /\ outcome' = result.transition

\* Bound.  After a failed Replace the order no longer shrinks with the tracks.
Room == Len(queue.items) < MaxItems /\ Len(queue.order) <= MaxItems

Replace(items, current) ==
  /\ CheckedReplace => current <= Len(items)
  /\ Answered(ReplaceItems(queue, items, current))

AppendCall(item)         == Room /\ Answered(AppendItem(queue, item))
InsertCall(index, item)  == Room /\ Answered(InsertItem(queue, index, item))
RemoveCall(index)        == Answered(RemoveItem(queue, index))
MoveCall(from, to)       == Answered(MoveItem(queue, from, to))
ShuffleCall(on, seed)    == Answered(SetShuffle(queue, on, seed))
RepeatCall(mode)         == Answered(Returns(SetRepeat(queue, mode), TRUE))
ThresholdCall(pos)       == Answered(Returns(SetThreshold(queue, pos), TRUE))

SelectCall(index) ==
  IF index > Len(queue.items)
  THEN Answered(Returns(queue, FALSE))
  ELSE Told(Select(queue, index))

FirstCall           == Told(First(queue))
AdvanceCall(reason) == Told(AdvanceNext(queue, reason))
PreviousCall(pos)   == Told(Previous(queue, pos))

Next ==
  \/ \E items \in SeqOf(Items, MaxItems), current \in Indexes :
       Replace(items, current)
  \/ \E item \in Items : AppendCall(item)
  \/ \E index \in 1 .. MaxItems + 1, item \in Items : InsertCall(index, item)
  \/ \E index \in Places : RemoveCall(index)
  \/ \E from, to \in Places : MoveCall(from, to)
  \/ \E index \in Places : SelectCall(index)
  \/ FirstCall
  \/ \E reason \in AdvanceReasons : AdvanceCall(reason)
  \/ \E pos \in Positions : PreviousCall(pos)
  \/ \E on \in BOOLEAN, seed \in Seeds : ShuffleCall(on, seed)
  \/ \E mode \in RepeatModes : RepeatCall(mode)
  \/ \E pos \in Positions : ThresholdCall(pos)

Spec == Init /\ [][Next]_qvars
-----------------------------------------------------------------------------
(* Properties. *)

\* queue.rs calls shuffle "an explicit, reproducible permutation of logical item
\* indexes": the order plays every track of the queue once, and the position is
\* where it plays the current track.
OrderIsPermutation ==
  /\ Len(queue.order) = Len(queue.items)
  /\ Range(queue.order) = DOMAIN queue.items
  /\ IF queue.current = 0
     THEN queue.position = 0
     ELSE /\ queue.position \in DOMAIN queue.order
          /\ queue.order[queue.position] = queue.current

\* Changing the list or the policy around the current track never changes which
\* track is current; removing it selects another one only if there is none.
Current(q) == q.items[q.current]

KeepsCurrentTrack ==
  queue.current # 0 =>
    /\ (\/ \E item \in Items : AppendCall(item)
        \/ \E index \in 1 .. MaxItems + 1, item \in Items : InsertCall(index, item)
        \/ \E index \in Places : index # queue.current /\ RemoveCall(index)
        \/ \E from, to \in Places : MoveCall(from, to)
        \/ \E on \in BOOLEAN, seed \in Seeds : ShuffleCall(on, seed)
       ) => queue'.current # 0 /\ Current(queue') = Current(queue)
    /\ RemoveCall(queue.current) =>
         (queue'.current = 0 <=> queue'.items = <<>>)

\* The tracks in the order they are played.
PlaySequence(q) == [k \in DOMAIN q.order |-> q.items[q.order[k]]]

\* Mutating a shuffled queue reshuffles nothing: a new track plays last, a
\* removed one drops out, a moved one keeps its turn.
KeepsTurns ==
  queue.shuffle =>
    /\ \A item \in Items :
         \/ AppendCall(item)
         \/ \E index \in 1 .. Len(queue.items) + 1 : InsertCall(index, item)
         => PlaySequence(queue') = Append(PlaySequence(queue), item)
    /\ \A k \in DOMAIN queue.order :
         RemoveCall(queue.order[k]) =>
           PlaySequence(queue') = RemoveAt(PlaySequence(queue), k)
    /\ \A from, to \in Places :
         MoveCall(from, to) => PlaySequence(queue') = PlaySequence(queue)

\* A mutation of the list leaves the current track current and the others at
\* their turns (append, insert, remove, move_item, set_shuffle).
TurnsAreKept == [][KeepsCurrentTrack /\ KeepsTurns]_qvars

\* The same tracks and settings in the other queue.
PolicyOf(q) ==
  [items |-> q.items, current |-> q.current, shuffle |-> q.shuffle,
   seed |-> q.seed, repeat |-> q.repeat]

SameMove(moved, told) ==
  /\ told.policy = PolicyOf(moved.queue)
  /\ told.kind = moved.transition.kind
  /\ told.index = moved.transition.index

\* While a track is current, and as long as no mutation of a shuffled queue has
\* kept the old turns, the queue and the queue policy move alike; so does, when
\* nothing repeats, the failure policy over the tracks in the order of play.
PoliciesAgree ==
  LET policy == PolicyOf(queue)
      here   == queue.position
      next   == AdvanceNext(queue, "Completed").queue
      skip   == Policy!Decide(Policy!DefaultLocal, "Skip", Current(queue),
                              PlaySequence(queue), here)
      lost   == Policy!Decide(Policy!DefaultLocal, "SourceLoss", Current(queue),
                              PlaySequence(queue), here)
  IN
  queue.current # 0 =>
    /\ queue.order = OrderFor(queue) =>
         /\ SameMove(AdvanceNext(queue, "ManualNext"), Policy!Advance(policy))
         /\ SameMove(AdvanceNext(queue, "Completed"), Policy!OnItemCompleted(policy))
         /\ queue.threshold = DefaultThreshold =>
              \A pos \in Positions :
                SameMove(Previous(queue, pos), Policy!PreviousAt(policy, pos))
         /\ \A on \in BOOLEAN, seed \in Seeds :
              PolicyOf(SetShuffle(queue, on, seed).queue) =
                Policy!SetShuffle(policy, on, seed)
         /\ \A mode \in RepeatModes :
              PolicyOf(SetRepeat(queue, mode)) = Policy!SetRepeat(policy, mode)
         /\ \A k \in DOMAIN queue.items :
              LET told == Policy!SelectItem(policy, queue.items[k]) IN
              /\ told.ok /\ told.queue.current <= k
              /\ told.queue = PolicyOf(Select(queue, told.queue.current).queue)
         /\ \A current \in Indexes :
              LET rebuilt == ReplaceItems(queue, queue.items, current)
                  told    == Policy!SetItems(policy, queue.items, current)
              IN told.ok = rebuilt.ok /\ told.queue = PolicyOf(rebuilt.queue)
    /\ queue.repeat = "Off" =>
         /\ skip.ok /\ lost.action = skip.action
         /\ skip.action.exhausted <=> next.position = here
         /\ ~skip.action.exhausted => skip.action.index = next.position

\* Whatever calls came before, the order is a permutation, and playing on from
\* its first track plays every track once and then ends or, when everything
\* repeats, starts over; and the other two policies would play the same.
PlaysEachTrackOnce ==
  LET n == Len(queue.items)
      played[k \in 1 .. n] ==
        IF k = 1 THEN First(queue).queue
                 ELSE AdvanceNext(played[k - 1], "Completed").queue
  IN /\ OrderIsPermutation
     /\ PoliciesAgree
     /\ queue.repeat # "One" /\ n > 0 =>
          /\ {played[k].current : k \in 1 .. n} = DOMAIN queue.items
          /\ AdvanceNext(played[n], "Completed").transition.kind =
               IF queue.repeat = "All" THEN "Selected" ELSE "Ended"
=============================================================================
