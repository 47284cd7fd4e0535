-------------------------- MODULE ScanOrchestration --------------------------
(* What one scan makes of the assets it knew and those it found             *)
(* (src/core/aurorix-library/src/scan_state.rs and scan_orchestration.rs):   *)
(* the transitions of an asset's state, and the classification of every     *)
(* locator.  A locator is the asset it belongs to; the order of directories *)
(* and their batches decide nothing here and are left out.                  *)

States == {"discovered", "probing", "active", "changed", "missing", "permission_denied",
           "unsupported", "error", "relink_candidate", "tombstoned"}

Invalid == "invalid"   \* Err(InvalidTransition)

Transition(from, observation, to) == [from |-> from, observation |-> observation, to |-> to]

Transitions ==
  {Transition(s, "ProbeStarted", "probing") : s \in {"discovered", "changed"}}
  \cup {Transition(s, "ProbeSucceeded", "active") : s \in {"probing", "relink_candidate"}}
  \cup {Transition(s, "Failed", "error") : s \in {"active", "changed", "probing"}}
  \cup {Transition("active", "ContentChanged", "changed"),
        Transition("active", "Missing", "missing"),
        Transition("active", "PermissionDenied", "permission_denied"),
        Transition("active", "Unsupported", "unsupported"),
        Transition("missing", "CandidateFound", "relink_candidate"),
        Transition("relink_candidate", "Tombstone", "tombstoned")}

\* ScanState::observe.
Observe(state, observation) ==
  IF \E t \in Transitions : t.from = state /\ t.observation = observation
  THEN (CHOOSE t \in Transitions : t.from = state /\ t.observation = observation).to
  ELSE Invalid

Classify(print, observed, gone) ==
  IF observed = gone THEN "Missing" ELSE IF observed = print THEN "Unchanged" ELSE "Changed"

\* An unchanged file keeps its state, a missing one that is back included; what
\* changed while it was not active, and what is missing twice, is an error.
NextState(kind, previous) ==
  CASE kind = "Unchanged" -> previous
    [] kind = "Missing"   -> Observe(previous, "Missing")
    [] kind = "Changed" /\ previous \in {"missing", "relink_candidate"} -> "relink_candidate"
    [] OTHER -> Observe(Observe(previous, "ContentChanged"), "ProbeStarted")

\* ScanRun::build over assets that were all tracked before: the event of each,
\* or no run at all when one of them has an invalid transition.
Build(assets, state, print, observed, gone) ==
  [a \in assets |->
     LET kind == Classify(print[a], observed[a], gone)
     IN  [kind |-> kind, to |-> NextState(kind, state[a])]]

IsRun(events) == \A a \in DOMAIN events : events[a].to # Invalid
=============================================================================
