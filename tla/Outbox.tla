------------------------------- MODULE Outbox -------------------------------
(* What an outbox promises (src/core/aurorix-sync/src/outbox.rs): under an   *)
(* idempotency key it retains the first bytes it is given, for ever, and the *)
(* lifecycle of an entry only goes forward.  The module is in memory and     *)
(* nothing calls it yet; the durable stores of the devices keep its promise  *)
(* all together (StoresAreOutboxes in SyncLoop).  Digests, and the order of   *)
(* the entries, which no transition looks at, are left out.                  *)

CONSTANTS
  Keys,            \* idempotency keys: operation ids
  Bodies,          \* what the bytes of an operation stand for
  NoRow            \* no entry under this key

VARIABLE entries   \* the entry of each key

Entries == [body : Bodies, state : {"Pending", "Acknowledged", "Archived"}]

TypeOK == entries \in [Keys -> Entries \cup {NoRow}]

Init == entries = [k \in Keys |-> NoRow]

Moved(k, state) == entries' = [entries EXCEPT ![k].state = state]

\* A key that is there keeps its entry: the same bytes are already present,
\* and with other bytes the key was reused.
Enqueue(k, body) ==
  IF entries[k] # NoRow THEN UNCHANGED entries
  ELSE entries' = [entries EXCEPT ![k] = [body |-> body, state |-> "Pending"]]

\* Unknown keys and archived entries are errors, a repeated acknowledgement is
\* none, and only what was pending changes.
Acknowledge(k) ==
  IF entries[k] # NoRow /\ entries[k].state = "Pending"
  THEN Moved(k, "Acknowledged") ELSE UNCHANGED entries

Archive(k) ==
  IF entries[k] # NoRow /\ entries[k].state # "Archived"
  THEN Moved(k, "Archived") ELSE UNCHANGED entries

Next ==
  \E k \in Keys :
    (\E body \in Bodies : Enqueue(k, body)) \/ Acknowledge(k) \/ Archive(k)

Spec == Init /\ [][Next]_entries
=============================================================================
