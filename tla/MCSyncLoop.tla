----------------------------- MODULE MCSyncLoop -----------------------------
(* SyncLoop with a few devices, operations and bodies, and beside it a       *)
(* download of a snapshot: a state belongs to one of the two.                *)
EXTENDS SyncLoop, SyncSnapshot, TLC

CONSTANTS d1, d2, o1, o2, o3, e1, i1, s1, s2

VARIABLE part            \* "operations" or "snapshot"

SyncInit == Init /\ SnapshotInit /\ part \in {"operations", "snapshot"}

SyncNext ==
  /\ UNCHANGED part
  /\ \/ part = "operations" /\ Next /\ UNCHANGED snapshotVars
     \/ part = "snapshot" /\ SnapshotNext /\ UNCHANGED vars

SyncSpec == SyncInit /\ [][SyncNext]_<<vars, snapshotVars, part>>

Asked(kind, text, item) ==
  [kind |-> kind, entity |-> e1, text |-> text, item |-> item, before |-> NoItem,
   after |-> i1, based |-> TRUE]

SomeBodies ==
  {Asked("Create", "a", NoItem), Asked("Delete", "a", NoItem), Asked("Set", "a", NoItem),
   Asked("ItemAdd", "a", i1), Asked("ItemRemove", "a", i1), Asked("ItemMove", "a", i1)}

\* Every operation has an owner, and one device has two of them.
SomeIds == [d \in Devices |-> IF d = d1 THEN {o1, o2} ELSE {o3}]

\* The two operations of one device may change places.
Symmetry == Permutations({o1, o2})

\* Bound: the other device creates or deletes what the first one edits.
OwnersKind ==
  LET row == stores[d2].rows[o3]
  IN  row = NoRow \/ row.body.kind \in {"Create", "Delete"}

\* The snapshot the server cut, and the manifest it announces it with.
Cut == << <<1, 2>>, <<1>> >>

Honest ==
  [snapshot |-> s1, versionChars |-> 1, total |-> 2, chunkSize |-> 2,
   whole |-> Digest(<<1, 2, 1>>),
   chunks |-> <<Descriptor(0, Cut[1]), Descriptor(1, Cut[2])>>]

\* The same in another order, and manifests that say something else.
SomeManifests ==
  {Honest,
   [Honest EXCEPT !.chunks = <<Descriptor(1, Cut[2]), Descriptor(0, Cut[1])>>],
   [Honest EXCEPT !.chunks = <<Descriptor(1, Cut[1]), Descriptor(0, Cut[2])>>],
   [Honest EXCEPT !.chunks = <<Descriptor(0, Cut[1]), Descriptor(0, Cut[1])>>],
   [Honest EXCEPT !.chunks = <<Descriptor(0, Cut[1])>>],
   [Honest EXCEPT !.chunks = <<Descriptor(0, Cut[1]), Descriptor(2, Cut[2])>>],
   [Honest EXCEPT !.chunks = <<Descriptor(0, <<1, 2, 1>>), Descriptor(1, Cut[2])>>],
   [Honest EXCEPT !.versionChars = 0], [Honest EXCEPT !.versionChars = 3],
   [Honest EXCEPT !.total = 0], [Honest EXCEPT !.total = 4],
   [Honest EXCEPT !.chunkSize = 0], [Honest EXCEPT !.chunkSize = 4],
   [Honest EXCEPT !.snapshot = s2],
   [Honest EXCEPT !.whole = Digest(<<2, 1>>)]}

\* What was sent, each chunk at the other's place, of another snapshot, with a
\* byte changed, and with the digest changed as well.
SomeDeliveries ==
  {Chunk(s1, 0, Digest(Cut[1]), Cut[1]), Chunk(s1, 1, Digest(Cut[2]), Cut[2]),
   Chunk(s1, 1, Digest(Cut[1]), Cut[1]), Chunk(s1, 0, Digest(Cut[2]), Cut[2]),
   Chunk(s1, 2, Digest(Cut[2]), Cut[2]),
   Chunk(s2, 0, Digest(Cut[1]), Cut[1]), Chunk(s2, 1, Digest(Cut[2]), Cut[2]),
   Chunk(s1, 1, Digest(Cut[2]), <<2>>), Chunk(s1, 1, Digest(<<2>>), <<2>>)}
=============================================================================
