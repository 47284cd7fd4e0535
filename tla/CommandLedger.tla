--------------------------- MODULE CommandLedger ---------------------------
(***************************************************************************)
(* What a playback session promises its callers about commands, whatever   *)
(* its workers do: every request id is used once; at most one operation    *)
(* owns the session; only the owner can be applied by a worker; a command  *)
(* that takes over, a boundary or a cancel ends the ownership for good;    *)
(* and what became of a request never changes again.                       *)
(***************************************************************************)
CONSTANTS
  Requests,
  Nobody      \* no operation owns the session; not one of Requests

VARIABLES
  status,    \* what became of each request
  owner      \* the operation a worker may still apply

vars == <<status, owner>>

TypeOK ==
  /\ status \in [Requests ->
       {"unseen", "pending", "applied", "rejected", "cancelled"}]
  /\ owner \in Requests \cup {Nobody}

Init ==
  /\ status = [r \in Requests |-> "unseen"]
  /\ owner = Nobody

\* An operation takes over.  The one before it stays pending for ever.
Begin(r) ==
  /\ status[r] = "unseen"
  /\ status' = [status EXCEPT ![r] = "pending"]
  /\ owner' = r

Refuse(r) ==
  /\ status[r] = "unseen"
  /\ status' = [status EXCEPT ![r] = "rejected"]
  /\ UNCHANGED owner

\* A command applied on the spot, with or without a boundary.
ApplyNow(r) ==
  /\ status[r] = "unseen"
  /\ status' = [status EXCEPT ![r] = "applied"]
  /\ owner' \in {owner, Nobody}

\* A worker finishes the operation that owns the session, and no other.
Finish ==
  /\ owner # Nobody
  /\ status[owner] = "pending"
  /\ status' = [status EXCEPT ![owner] = "applied"]
  /\ owner' = Nobody

Cancel(r, target) ==
  /\ status[r] = "unseen"
  /\ status[target] = "pending"
  /\ r # target
  /\ status' = [status EXCEPT ![target] = "cancelled", ![r] = "applied"]
  /\ owner' = IF owner = target THEN Nobody ELSE owner

Next ==
  \/ \E r \in Requests : Begin(r) \/ Refuse(r) \/ ApplyNow(r)
  \/ \E r, target \in Requests : Cancel(r, target)
  \/ Finish

Spec == Init /\ [][Next]_vars
=============================================================================
