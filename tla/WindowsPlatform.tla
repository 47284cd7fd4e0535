--------------------------- MODULE WindowsPlatform ---------------------------
(* The three gateways of the Windows adapter.  They live in one process and *)
(* share nothing, so a behaviour follows one of them and the others stand   *)
(* still: what holds of each so holds of any interleaving.                   *)
EXTENDS MediaControls, WindowsScan, ExtensionRegistry

VARIABLE gateway   \* the one that is followed

platformVars == <<mediaVars, scanVars, registryVars, gateway>>

PlatformInit ==
  /\ MediaInit /\ ScanInit /\ RegistryInit
  /\ gateway \in {"controls", "scans", "extensions"}

PlatformNext ==
  /\ UNCHANGED gateway
  /\ \/ gateway = "controls" /\ MediaNext /\ UNCHANGED <<scanVars, registryVars>>
     \/ gateway = "scans" /\ ScanNext /\ UNCHANGED <<mediaVars, registryVars>>
     \/ gateway = "extensions" /\ RegistryNext /\ UNCHANGED <<mediaVars, scanVars>>

PlatformSpec ==
  /\ PlatformInit /\ [][PlatformNext]_platformVars
  /\ gateway = "controls" => MediaFairness

-----------------------------------------------------------------------------
NotOlder(p, q) ==
  \/ p.version > q.version
  \/ p.version = q.version /\ p.epoch > q.epoch
  \/ p.version = q.version /\ p.epoch = q.epoch /\ p.position >= q.position

\* The controls never go back to an older state or position, whatever the order
\* in which snapshots and samples arrive and whenever the sink throws
\* (AcceptSnapshot, SampleProgress).
ProjectionFollowsCore ==
  [][shown # NoProjection => NotOlder(shown', shown)]_platformVars

\* When the Core has come to rest, the controls show its last snapshot, if the
\* host delivers it and keeps flushing (FlushProgress).
ControlsConverge == gateway = "controls" => <>[](shown = Map(core))
=============================================================================
