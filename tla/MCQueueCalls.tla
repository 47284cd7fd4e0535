---------------------------- MODULE MCQueueCalls ----------------------------
(* QueueCalls on up to three tracks. *)
EXTENDS QueueCalls

CONSTANTS i1, i2, i3

MCSeeds == {0, 2}

\* The first outputs of splitmix64 for these seeds, modulo 12 (every range a
\* shuffle of up to four tracks draws from divides 12).
MCDraw ==
  [seed \in MCSeeds |->
     CASE seed = 0 -> SubSeq(<<7, 0, 7>>, 1, MaxItems)
       [] seed = 2 -> SubSeq(<<10, 2, 3>>, 1, MaxItems)]

Symmetry == Permutations(Items)
=============================================================================
