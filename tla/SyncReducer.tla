---------------------------- MODULE SyncReducer ----------------------------
(* The reducer that orders the operations of all devices                   *)
(* (src/core/aurorix-sync/src/reducer.rs): operators on one reducer value.  *)
(* Serialized bytes, and so their digest, are the body they stand for; the  *)
(* ids of favorites, settings and play facts are entities like any other,   *)
(* and what is stored for them is the last value written.                   *)
EXTENDS Naturals, Sequences, FiniteSets, SequencesExt

CONSTANTS
  Operations,      \* ids of operations, the idempotency keys
  Entities,        \* ids of playlists and of the other replicated entities
  Items,           \* ids of playlist items
  NoItem,          \* no anchor, or no item
  NoList,          \* no playlist under this id
  NoResult,        \* no result retained under this id
  Unset            \* no value written under this id

ListKinds == {"Create", "Rename", "Delete", "ItemAdd", "ItemRemove", "ItemMove"}

\* What an operation asks for. Only the fields of its kind count: a name, a
\* value, an item, and the anchors and the base version of a move. The empty
\* name stands for every name without visible characters.
Bodies ==
  [kind : ListKinds \cup {"Set"}, entity : Entities, text : STRING,
   item : Items \cup {NoItem}, before : Items \cup {NoItem},
   after : Items \cup {NoItem}, based : BOOLEAN]

Lists == [version : Nat, deleted : BOOLEAN, name : STRING,
          items : Seq(Items), media : SUBSET Items]

Results == [body : Bodies, revision : Nat, version : Nat]

Reducers ==
  [revision : Nat, kept : [Operations -> Results \cup {NoResult}],
   lists : [Entities -> Lists \cup {NoList}],
   values : [Entities -> STRING \cup {Unset}]]

NewReducer ==
  [revision |-> 0, kept |-> [o \in Operations |-> NoResult],
   lists |-> [e \in Entities |-> NoList], values |-> [e \in Entities |-> Unset]]

-----------------------------------------------------------------------------
\* The preconditions checked before a revision is taken.
Validates(r, body) ==
  LET list == r.lists[body.entity]
  IN /\ body.kind = "ItemMove" => body.based
     /\ (list # NoList /\ body.kind # "Create") => ~list.deleted
     /\ body.kind \in {"Create", "Rename"} => body.text # ""

\* The preconditions found out by the mutation itself, after the revision.
CanMutate(r, body) ==
  LET list == r.lists[body.entity]
  IN /\ body.kind \notin {"Create", "Set"} => list # NoList
     /\ body.kind \in {"ItemRemove", "ItemMove"} => body.item \in list.media

\* The place a moved item goes to among the others: at the item it is to come
\* before, or behind the one it is to come after, or at the end.
MoveIndex(others, body) ==
  IF Contains(others, body.before) THEN SelectInSeq(others, LAMBDA i : i = body.before)
  ELSE IF Contains(others, body.after) THEN SelectInSeq(others, LAMBDA i : i = body.after) + 1
  ELSE Len(others) + 1

Without(items, item) == SelectSeq(items, LAMBDA i : i # item)

MovedItems(items, body) ==
  LET others == Without(items, body.item)
  IN InsertAt(others, MoveIndex(others, body), body.item)

NewList(body) ==
  [version |-> 1, deleted |-> FALSE, name |-> body.text, items |-> << >>, media |-> {}]

\* A playlist after the mutation. Creating one that is there renames it.
MutatedList(list, body) ==
  IF list = NoList THEN NewList(body)
  ELSE [version |-> list.version + 1,
        deleted |-> list.deleted \/ body.kind = "Delete",
        name    |-> IF body.kind \in {"Create", "Rename"} THEN body.text ELSE list.name,
        items   |-> IF body.kind = "ItemAdd" THEN Append(list.items, body.item)
                    ELSE IF body.kind = "ItemRemove" THEN Without(list.items, body.item)
                    ELSE IF body.kind = "ItemMove" THEN MovedItems(list.items, body)
                    ELSE list.items,
        media   |-> IF body.kind = "ItemAdd" THEN list.media \cup {body.item}
                    ELSE IF body.kind = "ItemRemove" THEN list.media \ {body.item}
                    ELSE list.media]

MutatedLists(lists, body) ==
  IF body.kind = "Set" THEN lists
  ELSE [lists EXCEPT ![body.entity] = MutatedList(@, body)]

MutatedValues(values, body) ==
  IF body.kind = "Set" THEN [values EXCEPT ![body.entity] = body.text] ELSE values

\* The entity version of the result: of the playlist, or the revision itself.
ResultVersion(r, body) ==
  IF body.kind = "Set" THEN r.revision + 1
  ELSE MutatedList(r.lists[body.entity], body).version

-----------------------------------------------------------------------------
IsRetained(r, op, body) == r.kept[op] # NoResult /\ r.kept[op].body = body
IsReused(r, op, body)   == r.kept[op] # NoResult /\ r.kept[op].body # body
Accepts(r, op, body)    ==
  r.kept[op] = NoResult /\ Validates(r, body) /\ CanMutate(r, body)

\* Mutant: a repeated operation is carried out again.
AppliedAgain(r, op, body) ==
  IF (IsRetained(r, op, body) \/ Accepts(r, op, body)) /\ Validates(r, body)
    THEN [revision |-> r.revision + 1,
          kept     |-> [r.kept EXCEPT ![op] =
                          [body |-> body, revision |-> r.revision + 1,
                           version |-> ResultVersion(r, body)]],
          lists    |-> MutatedLists(r.lists, body),
          values   |-> MutatedValues(r.values, body)]
  ELSE r

\* The reducer after an operation: a mutation that fails has used up its
\* revision, everything else that is not accepted leaves no trace.
Applied(r, op, body) ==
  IF Accepts(r, op, body)
    THEN [revision |-> r.revision + 1,
          kept     |-> [r.kept EXCEPT ![op] =
                          [body |-> body, revision |-> r.revision + 1,
                           version |-> ResultVersion(r, body)]],
          lists    |-> MutatedLists(r.lists, body),
          values   |-> MutatedValues(r.values, body)]
  ELSE IF r.kept[op] = NoResult /\ Validates(r, body)
    THEN [revision |-> r.revision + 1, kept |-> r.kept,
          lists |-> r.lists, values |-> r.values]
  ELSE r

\* Its answer. The revision of a rejected operation is 0: it has none.
Answered(r, op, body) ==
  IF IsRetained(r, op, body) THEN [status |-> "Duplicate", revision |-> r.kept[op].revision]
  ELSE IF Accepts(r, op, body) THEN [status |-> "Accepted", revision |-> r.revision + 1]
  ELSE [status |-> "Rejected", revision |-> 0]
=============================================================================
