----------------------------- MODULE WindowsScan -----------------------------
(* The scans of the Windows library gateway                                 *)
(* (src/apps/windows/Aurorix.Platform.Windows/WindowsScanGateway.cs): the    *)
(* sessions, their cancellation and disposal by other threads, and the walk *)
(* of WindowsScanEngine, one path a step.  The file system is external,      *)
(* a tree in which any look at a path may fail or find a reparse point, which *)
(* is not followed.  Progress callbacks cannot fail a scan and are left out, *)
(* and so is the matching of a relink, which runs the same engine.           *)
EXTENDS Naturals, Sequences, FiniteSets, SequencesExt, Functions

CONSTANTS
  ScanIds,
  Paths,
  Children,        \* the children of each folder, {} for a file
  Roots            \* sequences of paths a request may name

ASSUME TreeAssumption ==
  /\ IsFiniteSet(Paths)
  /\ Roots \subseteq Seq(Paths)
  /\ Children \in [Paths -> SUBSET Paths]
  /\ \E height \in [Paths -> 0 .. Cardinality(Paths)] :
       \A p \in Paths : \A c \in Children[p] : height[c] < height[p]

VARIABLES
  stage,           \* where each scan is: "none", "added", "running", "over", "removed"
  attached,        \* sessions whose Completion can be read
  requested,       \* sessions with cancellation requested
  roots,           \* request.Roots
  pending, visited, found, issues,   \* locals of Scan; found and issues as told
  outcome,         \* WindowsScanCompletionState
  disposing        \* sessions that Dispose has still to cancel

gatewayVars == <<attached, requested, disposing>>
engineVars  == <<roots, pending, visited, found, issues, outcome>>
scanVars    == <<stage, gatewayVars, engineVars>>

ScanInit ==
  /\ stage = [s \in ScanIds |-> "none"]
  /\ attached = {} /\ requested = {} /\ disposing = {}
  /\ roots   = [s \in ScanIds |-> <<>>]
  /\ pending = [s \in ScanIds |-> <<>>]
  /\ visited = [s \in ScanIds |-> {}]
  /\ found   = [s \in ScanIds |-> <<>>]
  /\ issues  = [s \in ScanIds |-> <<>>]
  /\ outcome = [s \in ScanIds |-> "none"]

MoveTo(s, there) == stage' = [stage EXCEPT ![s] = there]
InScans(s)       == stage[s] \in {"added", "running", "over"}   \* in _scans
-----------------------------------------------------------------------------
(* StartScan: the session is known before its task runs, and the task may   *)
(* be over before it is attached                                             *)

AddSession(s) ==
  /\ stage[s] = "none"
  /\ MoveTo(s, "added")
  /\ UNCHANGED <<gatewayVars, engineVars>>

RunTask(s, rs) ==
  /\ stage[s] = "added"
  /\ MoveTo(s, "running")
  /\ roots'   = [roots EXCEPT ![s] = rs]
  /\ pending' = [pending EXCEPT ![s] = rs]
  /\ UNCHANGED <<gatewayVars, visited, found, issues, outcome>>

Attach(s) ==
  /\ stage[s] \in {"running", "over"} /\ s \notin attached
  /\ attached' = attached \cup {s}
  /\ UNCHANGED <<stage, requested, disposing, engineVars>>

\* The continuation, registered after Attach.
RemoveSession(s) ==
  /\ stage[s] = "over" /\ s \in attached
  /\ MoveTo(s, "removed")
  /\ UNCHANGED <<gatewayVars, engineVars>>

-----------------------------------------------------------------------------
(* Scan                                                                      *)

Now(s, p) == visited' = [visited EXCEPT ![s] = @ \cup {p}]
Next1(s)  == Head(pending[s])

Walking(s) == stage[s] = "running" /\ s \notin requested /\ pending[s] # <<>>

\* Mutant: a path that was seen before is looked at again.
MutantSkip(s) == FALSE

\* Roots may lie in each other.
Skip(s) == Next1(s) \in visited[s]

SkipPath(s) ==
  /\ Walking(s) /\ Skip(s)
  /\ pending' = [pending EXCEPT ![s] = Tail(@)]
  /\ UNCHANGED <<stage, gatewayVars, roots, visited, found, issues, outcome>>

\* It is missing, denied, of another kind than selected, a reparse point, or
\* its children cannot be listed.
MeetIssue(s) ==
  /\ Walking(s) /\ ~Skip(s)
  /\ pending' = [pending EXCEPT ![s] = Tail(@)]
  /\ issues'  = [issues EXCEPT ![s] = Append(@, Next1(s))]
  /\ Now(s, Next1(s))
  /\ UNCHANGED <<stage, gatewayVars, roots, found, outcome>>

\* Children go on the stack above what is left.
VisitPath(s) ==
  /\ Walking(s) /\ ~Skip(s)
  /\ IF Children[Next1(s)] = {}
     THEN /\ found' = [found EXCEPT ![s] = Append(@, Next1(s))]
          /\ pending' = [pending EXCEPT ![s] = Tail(@)]
     ELSE /\ pending' = [pending EXCEPT ![s] = SetToSeq(Children[Next1(s)]) \o Tail(@)]
          /\ UNCHANGED found
  /\ Now(s, Next1(s))
  /\ UNCHANGED <<stage, gatewayVars, roots, issues, outcome>>

Finish(s, how) ==
  /\ MoveTo(s, "over")
  /\ outcome' = [outcome EXCEPT ![s] = how]
  /\ UNCHANGED <<gatewayVars, roots, pending, visited, found, issues>>

EndWalk(s)    == stage[s] = "running" /\ pending[s] = <<>> /\ Finish(s, "Completed")

Cancelled(s)  == stage[s] = "running" /\ s \in requested /\ pending[s] # <<>>

EndCancelled(s) == Cancelled(s) /\ Finish(s, "Cancelled")

\* An exception that the loop does not expect where it comes.  Its issue names no
\* path, so it covers none and is left out.
EndFailed(s)  == Walking(s) /\ Finish(s, "Failed")

-----------------------------------------------------------------------------
(* Cancel, TryCancelScan and Dispose, on any thread                          *)

Request(ss) == requested' = requested \cup ss

Cancel(s) ==
  /\ InScans(s)
  /\ Request({s})
  /\ UNCHANGED <<stage, attached, disposing, engineVars>>

ToDispose == {s \in ScanIds : InScans(s)}

\* Dispose cancels what it finds.  That it then empties the table, so that a Cancel
\* which comes later finds nothing to cancel twice, is left out.
BeginDispose ==
  /\ disposing = {}
  /\ disposing' = ToDispose
  /\ UNCHANGED <<stage, attached, requested, engineVars>>

DisposeOne(s) ==
  /\ s \in disposing
  /\ disposing' = disposing \ {s}
  /\ Request({s})
  /\ UNCHANGED <<stage, attached, engineVars>>

Work(s) ==
  \/ SkipPath(s) \/ MeetIssue(s) \/ VisitPath(s)
  \/ EndWalk(s) \/ EndCancelled(s) \/ EndFailed(s)

ScanNext ==
  \/ BeginDispose
  \/ \E s \in ScanIds :
       \/ AddSession(s) \/ Attach(s) \/ RemoveSession(s) \/ Work(s)
       \/ \E r \in Roots : RunTask(s, r)
       \/ Cancel(s) \/ DisposeOne(s)

-----------------------------------------------------------------------------
\* A scan tells each path at most once, however its roots lie in each other,
\* and one that completes has told every file below its roots, or an issue of
\* the file or of a folder above it (WindowsScanEngine.Scan).
ScansTellEachPathOnce ==
  \A s \in ScanIds :
    /\ IsInjective(found[s] \o issues[s])
    /\ outcome[s] = "Completed" =>
         /\ ToSet(roots[s]) \subseteq visited[s]
         /\ \A p \in visited[s] \ ToSet(found[s] \o issues[s]) :
              Children[p] # {} /\ Children[p] \subseteq visited[s]
=============================================================================
