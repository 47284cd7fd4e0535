------------------------------- MODULE AudioEngine -------------------------------
(***************************************************************************)
(* The two ends of the audio engine: the decoder worker that fills the     *)
(* ring (DecodePath) and the device that empties it (SharedOutput).  They  *)
(* share no state but the ring, which AudioBuffer models, so a behaviour   *)
(* is one of either end while the other rests in one initial state.        *)
(***************************************************************************)
EXTENDS DecodePath, SharedOutput

VARIABLE end   \* the end of the engine a behaviour is about

engineVars == <<end, decodeVars, deviceVars>>

Init ==
  /\ end \in {"decoder", "device"}
  /\ DecodeInit /\ (end = "device" => codec.kind = "Opus")
  /\ DeviceInit /\ (end = "decoder" => present)

Next ==
  /\ UNCHANGED end
  /\ \/ end = "decoder" /\ DecodeNext /\ UNCHANGED deviceVars
     \/ end = "device" /\ DeviceNext /\ UNCHANGED decodeVars

EngineSpec == Init /\ [][Next]_engineVars

\* Bound: a reader only loads the clock and writes nothing that others read, so
\* it looks where no underrun, boundary or exclusive mode is told beside it.
Reading(r) == reader[r].at # "Idle" \/ reader[r].latest # NoSample
OneConcern ==
  (\E r \in Readers : Reading(r)) =>
    /\ covered = 0 /\ coordinator.at = "Idle"
    /\ output.mode # "Exclusive"
    /\ recovery.last.cause \in {"None", "Buffering"}
=================================================================================
