--------------------------- MODULE RequestTracker ---------------------------
(***************************************************************************)
(* The session-local request ledger of aurorix-playback (command.rs,       *)
(* RequestTracker).  It gives every command a revision, remembers what     *)
(* became of it, and classifies the results workers send back.             *)
(*                                                                         *)
(* A ledger is a record; the operations map ledgers to ledgers.  A request *)
(* that is not in the BTreeMap of the code has the record Unseen here.     *)
(***************************************************************************)
EXTENDS Naturals

CONSTANT Requests    \* the request ids callers may use

\* "Before" and "Unknown" are the two outcomes RequestState::Cancelled holds.
Cancelled == {"CancelledBefore", "CancelledUnknown"}
Resolved  == {"Applied", "Rejected"} \cup Cancelled
RequestStates == {"Unseen", "Active"} \cup Resolved

Records  == [rev : Nat, st : RequestStates]
Trackers == [next : Nat, latest : Nat, records : [Requests -> Records]]
Tokens   == [req : Requests, rev : Nat, gen : Nat]

NewTracker ==
  [next |-> 0, latest |-> 0,
   records |-> [r \in Requests |-> [rev |-> 0, st |-> "Unseen"]]]

Contains(t, r) == t.records[r].st # "Unseen"

\* One revision per recorded command, whatever becomes of it; only a command
\* that starts worker work supersedes the one before it.
Record(t, r, st) ==
  [next    |-> t.next + 1,
   latest  |-> IF st = "Active" THEN t.next + 1 ELSE t.latest,
   records |-> [t.records EXCEPT ![r] = [rev |-> t.next + 1, st |-> st]]]

Start(t, r)          == Record(t, r, "Active")
RecordRejected(t, r) == Record(t, r, "Rejected")
RecordApplied(t, r)  == Record(t, r, "Applied")

\* The token a Start or a RecordApplied hands out.
TokenFor(t, r, gen) == [req |-> r, rev |-> t.next + 1, gen |-> gen]

\* What became of a request; its revision stays.
Resolve(t, r, st) ==
  [next    |-> t.next,
   latest  |-> t.latest,
   records |-> [t.records EXCEPT ![r] = [rev |-> t.records[r].rev, st |-> st]]]

\* Mutant: the worker's result does not reach the ledger.
MutantMarkApplied(t, r) == t

MarkApplied(t, r) ==
  IF t.records[r].st = "Active" THEN Resolve(t, r, "Applied") ELSE t

CancellationOutcome(t, r) ==
  LET rec == t.records[r] IN
  IF rec.st = "Unseen"        THEN "UnknownRequest"
  ELSE IF rec.st \in Cancelled THEN "AlreadyCancelled"
  ELSE IF rec.st # "Active"   THEN "AlreadyApplied"
  ELSE IF rec.rev = t.latest  THEN "CancelledBeforeCommit"
  ELSE "OutcomeUnknown"

Cancel(t, r) ==
  LET outcome == CancellationOutcome(t, r) IN
  IF outcome = "CancelledBeforeCommit" THEN Resolve(t, r, "CancelledBefore")
  ELSE IF outcome = "OutcomeUnknown"   THEN Resolve(t, r, "CancelledUnknown")
  ELSE t

\* What a worker result is worth now.  A cancelled request is reported as
\* such before its generation is looked at.
Classify(t, token, gen) ==
  LET rec == t.records[token.req] IN
  IF rec.st = "Unseen"        THEN "UnknownRequest"
  ELSE IF rec.st \in Cancelled THEN "Cancelled"
  ELSE IF token.gen # gen     THEN "BufferGenerationChanged"
  ELSE IF rec.rev # t.latest  THEN "RequestSuperseded"
  ELSE IF rec.st = "Active"   THEN "Accepted"
  ELSE "RequestNoLongerPending"
=============================================================================
