------------------------------- MODULE FfiBoundary -------------------------------
(***************************************************************************)
(* The boundary between the managed client and the core: the handles,      *)
(* threads and callbacks that cross it (FfiClient), and the messages they  *)
(* carry (WireCodec).  A message is a value, so a behaviour is about       *)
(* either while the other rests in its initial state.                      *)
(***************************************************************************)
EXTENDS FfiClient, WireCodec

VARIABLE side   \* what a behaviour is about

boundaryVars == <<side, vars, codecVars>>

BoundaryInit == side \in {"calls", "messages"} /\ Init /\ CodecInit

BoundaryNext ==
  /\ UNCHANGED side
  /\ \/ side = "calls" /\ Next /\ UNCHANGED codecVars
     \/ side = "messages" /\ CodecNext /\ UNCHANGED vars

\* The fairness of FfiClient, for the calls.
Called(A) == side = "calls" /\ A /\ UNCHANGED <<side, codecVars>>

BoundarySpec ==
  /\ BoundaryInit /\ [][BoundaryNext]_boundaryVars
  /\ \A t \in Threads : WF_boundaryVars(Called(Continues(t)))
  /\ \A j \in Jobs :
       /\ WF_boundaryVars(Called(Works(j)))
       /\ WF_boundaryVars(Called(Closes(j)))
  /\ \A o \in Operations : WF_boundaryVars(Called(Close(o)))
==================================================================================
