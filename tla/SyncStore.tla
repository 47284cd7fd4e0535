----------------------------- MODULE SyncStore ------------------------------
(* The durable side of synchronization on one device                       *)
(* (src/core/aurorix-storage/src/sync_apply.rs and the tables of            *)
(* sync_schema.rs): operators on the outbox, the archive and the cursor.    *)
(* Each is one transaction: it changes all three or, on an error, nothing.  *)
(* Corrupted rows, malformed results and i64 overflow are left out, and so  *)
(* are entity versions, which no step reads back; the entity is part of the *)
(* body.                                                                    *)
EXTENDS Naturals

CONSTANTS
  Operations,      \* ids of operations
  Bodies,          \* what an operation may ask for
  Epochs,          \* histories a server may be in
  NoRow,           \* the operation is not in the outbox
  NoEntry,         \* the operation is not in the archive
  NoCursor         \* no result was applied yet

Rows    == [body : Bodies, state : {"Pending", "Acknowledged", "Archived"}, revision : Nat]
Entries == [body : Bodies, outcome : {"Accepted", "Duplicate", "Rejected"}, revision : Nat]
Cursors == [epoch : Epochs, revision : Nat]

Stores ==
  [rows : [Operations -> Rows \cup {NoRow}],
   archive : [Operations -> Entries \cup {NoEntry}],
   cursor : Cursors \cup {NoCursor}]

NewStore ==
  [rows |-> [o \in Operations |-> NoRow], archive |-> [o \in Operations |-> NoEntry],
   cursor |-> NoCursor]

\* Mutant: queueing a rejected operation again revives it.
EnqueueAgain(s, op, body) ==
  IF s.rows[op] # NoRow /\ s.rows[op].state # "Archived" THEN s
  ELSE [s EXCEPT !.rows[op] = [body |-> body, state |-> "Pending", revision |-> 0]]

\* An id that is there keeps its row, whether the bytes agree or not.
EnqueueOutbox(s, op, body) ==
  IF s.rows[op] # NoRow THEN s
  ELSE [rows    |-> [s.rows EXCEPT ![op] =
                       [body |-> body, state |-> "Pending", revision |-> 0]],
        archive |-> s.archive, cursor |-> s.cursor]

-----------------------------------------------------------------------------
\* The cursor a result is compared with: revision 0 of its own epoch at first.
Current(s, epoch) ==
  IF s.cursor = NoCursor THEN [epoch |-> epoch, revision |-> 0] ELSE s.cursor

\* A result that carries no revision leaves the cursor where it is.
Incoming(s, epoch, answer) ==
  IF answer.status = "Rejected" THEN Current(s, epoch).revision ELSE answer.revision

SameOutcome(retained, outcome) ==
  retained = outcome \/ {retained, outcome} = {"Accepted", "Duplicate"}

ArchiveAgrees(s, op, answer) ==
  s.archive[op] # NoEntry =>
    /\ SameOutcome(s.archive[op].outcome, answer.status)
    /\ s.archive[op].revision = answer.revision
    /\ s.archive[op].body = s.rows[op].body

\* Mutant: a result of any history is taken.
AppliesAnyEpoch(s, op, epoch, answer) ==
  /\ s.rows[op] # NoRow
  /\ Incoming(s, epoch, answer) >= Current(s, epoch).revision
  /\ answer.status # "Rejected" => s.rows[op].state # "Archived"
  /\ ArchiveAgrees(s, op, answer)

\* All the checks of the transaction, those that fail half-way included.
Applies(s, op, epoch, answer) ==
  /\ s.rows[op] # NoRow
  /\ Current(s, epoch).epoch = epoch
  /\ Incoming(s, epoch, answer) >= Current(s, epoch).revision
  /\ answer.status # "Rejected" => s.rows[op].state # "Archived"
  /\ ArchiveAgrees(s, op, answer)

SettledRow(row, answer) ==
  [body     |-> row.body,
   state    |-> IF answer.status = "Rejected" THEN "Archived" ELSE "Acknowledged",
   revision |-> answer.revision]

\* One transaction: the row, the archive and the cursor.
ApplyCanonicalResult(s, op, epoch, answer) ==
  IF ~Applies(s, op, epoch, answer) THEN s
  ELSE [rows    |-> [s.rows EXCEPT ![op] = SettledRow(@, answer)],
        archive |-> IF s.archive[op] # NoEntry THEN s.archive
                    ELSE [s.archive EXCEPT ![op] =
                            [body |-> s.rows[op].body, outcome |-> answer.status,
                             revision |-> answer.revision]],
        cursor  |-> [epoch |-> epoch, revision |-> Incoming(s, epoch, answer)]]
=============================================================================
