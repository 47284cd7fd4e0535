------------------------- MODULE MCOfflinePipeline -------------------------
(* OfflinePipeline with two tracks and a few commands. *)
EXTENDS OfflinePipeline

CONSTANTS i1, i2

MCSeeds == {0, 2}

\* The first outputs of splitmix64 for these seeds, modulo 12.
MCDraw == [seed \in MCSeeds |-> IF seed = 0 THEN <<7, 0>> ELSE <<10, 2>>]

PlayerCommands ==
  {"SetQueue", "Play", "Pause", "Resume", "Stop", "Seek", "Next", "Previous"}

\* Without Pause, after which content and clock part.
PauselessCommands ==
  {"SetQueue", "SetShuffle", "SetRepeat", "Play", "Stop", "Seek", "Cancel",
   "Next", "Previous"}

\* Bound: callers take the identifiers at the low end in order, or one that a
\* transition of the pipeline has taken or would take next.
FromBothEnds ==
  \A r \in seen :
    r > nextInternal \/ r = Cardinality(Requests) \/ 1 .. r \subseteq seen
=============================================================================
