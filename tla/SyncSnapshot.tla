---------------------------- MODULE SyncSnapshot ----------------------------
(***************************************************************************)
(* The bootstrap snapshot of synchronization                               *)
(* (src/core/aurorix-sync/src/snapshot.rs): a manifest announces the       *)
(* chunks, the chunks come in any order, twice, damaged or not at all, and *)
(* validate_snapshot looks at all of them together.  The transfer itself   *)
(* is not written yet: what it may do is what the module documents that    *)
(* validation stands.                                                      *)
(*                                                                         *)
(* A payload is a sequence of bytes and a digest stands for the bytes it   *)
(* was computed of (SHA-256 is taken to be injective).  A schema version   *)
(* is its number of characters; epoch and revision, which no check reads,  *)
(* are left out.                                                           *)
(***************************************************************************)
EXTENDS Naturals, Sequences, SequencesExt

CONSTANTS
  Source,            \* the payloads of the snapshot the server cut
  Manifests,         \* manifests that may arrive
  Deliveries,        \* chunks that may arrive
  SnapshotId,        \* the id of that snapshot
  MaxVersionChars, MaxTotalChunks, MaxChunkSize,
  NoManifest

ASSUME SnapshotAssumption ==
  /\ {MaxVersionChars, MaxTotalChunks, MaxChunkSize} \subseteq Nat
  /\ NoManifest \notin Manifests
  /\ Source \in Seq(ToSet(Source))
  /\ \A m \in Manifests : m.total \in Nat /\ m.chunks \in Seq(ToSet(m.chunks))
  /\ \A c \in Deliveries : c.index \in Nat

VARIABLES
  manifest,          \* the manifest of the download, or none
  received,          \* the chunks in the order they came
  verdict            \* what validate_snapshot said of them

snapshotVars == <<manifest, received, verdict>>

Digest(bytes) == [sha256 |-> bytes]

Descriptor(index, payload) ==
  [index |-> index, sha256 |-> Digest(payload), length |-> Len(payload)]

Chunk(id, index, digest, payload) ==
  [snapshot |-> id, index |-> index, sha256 |-> digest, payload |-> payload]

-----------------------------------------------------------------------------
(* validate_manifest. *)

\* What is wrong with a descriptor, given the indexes before it.
DescriptorFault(m, seen, d) ==
  IF d.index >= m.total           THEN "DescriptorIndexOutOfRange"
  ELSE IF d.index \in seen        THEN "DuplicateDescriptorIndex"
  ELSE IF d.length > m.chunkSize  THEN "DescriptorLengthExceedsChunkSize"
  ELSE "None"

\* The loop over the descriptors stops at the first fault.
ScanDescriptors(m) ==
  FoldLeft(LAMBDA scan, d :
             IF scan.fault # "None" THEN scan
             ELSE [seen  |-> scan.seen \cup {d.index},
                   fault |-> DescriptorFault(m, scan.seen, d)],
           [seen |-> {}, fault |-> "None"], m.chunks)

ManifestFault(m) ==
  IF m.versionChars = 0                        THEN "EmptySchemaVersion"
  ELSE IF m.versionChars > MaxVersionChars     THEN "SchemaVersionTooLong"
  ELSE IF m.total = 0                          THEN "ZeroTotalChunks"
  ELSE IF m.total > MaxTotalChunks             THEN "TotalChunksExceedsMaximum"
  ELSE IF m.chunkSize = 0                      THEN "ZeroChunkSize"
  ELSE IF m.chunkSize > MaxChunkSize           THEN "ChunkSizeExceedsMaximum"
  ELSE IF Len(m.chunks) # m.total              THEN "DescriptorCountMismatch"
  ELSE IF ScanDescriptors(m).fault # "None"    THEN ScanDescriptors(m).fault
  ELSE IF 0 .. m.total - 1 \subseteq ScanDescriptors(m).seen THEN "None"
  ELSE "MissingDescriptorIndex"

-----------------------------------------------------------------------------
(* validate_snapshot. *)

\* The descriptor of an index; a valid manifest has one.
DescriptorOf(m, index) == m.chunks[SelectInSeq(m.chunks, LAMBDA d : d.index = index)]

\* Mutant: a chunk that comes twice takes its place twice.
ChunkTakenAgain(m, taken, c) ==
  IF c.snapshot # m.snapshot                       THEN "ChunkSnapshotIdMismatch"
  ELSE IF c.index >= m.total                       THEN "ChunkIndexOutOfRange"
  ELSE IF Len(c.payload) # DescriptorOf(m, c.index).length THEN "ChunkLengthMismatch"
  ELSE IF Digest(c.payload) # c.sha256             THEN "ChunkHashMismatch"
  ELSE IF Digest(c.payload) # DescriptorOf(m, c.index).sha256
                                                   THEN "ChunkHashMismatch"
  ELSE "None"

\* What is wrong with a chunk, given those taken before it.
ChunkFault(m, taken, c) ==
  IF c.snapshot # m.snapshot                       THEN "ChunkSnapshotIdMismatch"
  ELSE IF c.index >= m.total                       THEN "ChunkIndexOutOfRange"
  ELSE IF taken[c.index + 1] # <<>>                THEN "DuplicateChunkIndex"
  ELSE IF Len(c.payload) # DescriptorOf(m, c.index).length THEN "ChunkLengthMismatch"
  ELSE IF Digest(c.payload) # c.sha256             THEN "ChunkHashMismatch"
  ELSE IF Digest(c.payload) # DescriptorOf(m, c.index).sha256
                                                   THEN "ChunkHashMismatch"
  ELSE "None"

\* The places of the chunks, each empty or with the payload it holds.
Placed(m, chunks) ==
  FoldLeft(LAMBDA scan, c :
             LET fault == ChunkFault(m, scan.taken, c) IN
             IF scan.fault # "None" THEN scan
             ELSE IF fault # "None" THEN [scan EXCEPT !.fault = fault]
             ELSE [scan EXCEPT !.taken[c.index + 1] = <<c.payload>>],
           [taken |-> [i \in 1 .. m.total |-> <<>>], fault |-> "None"], chunks)

ValidateSnapshot(m, chunks) ==
  LET placed == Placed(m, chunks) IN
  IF ManifestFault(m) # "None"                          THEN "InvalidManifest"
  ELSE IF placed.fault # "None"                         THEN placed.fault
  ELSE IF \E i \in 1 .. m.total : placed.taken[i] = <<>> THEN "MissingChunk"
  ELSE IF Digest(FlattenSeq([i \in 1 .. m.total |-> placed.taken[i][1]])) # m.whole
                                                        THEN "WholeHashMismatch"
  ELSE "Ok"

-----------------------------------------------------------------------------
(* A download. *)

SnapshotInit == manifest = NoManifest /\ received = <<>> /\ verdict = "None"

Announce(m) ==
  /\ manifest = NoManifest
  /\ manifest' = m
  /\ UNCHANGED <<received, verdict>>

\* One more chunk, of this snapshot or another, whole or damaged.  Bound: one
\* more than there are.
Arrive(c) ==
  /\ manifest # NoManifest /\ verdict = "None"
  /\ Len(received) <= Len(Source)
  /\ received' = Append(received, c)
  /\ UNCHANGED <<manifest, verdict>>

Validate ==
  /\ manifest # NoManifest /\ verdict = "None"
  /\ verdict' = ValidateSnapshot(manifest, received)
  /\ UNCHANGED <<manifest, received>>

\* The download starts over.
Discard ==
  /\ verdict # "None"
  /\ manifest' = NoManifest /\ received' = <<>> /\ verdict' = "None"

SnapshotNext ==
  \/ \E m \in Manifests : Announce(m)
  \/ \E c \in Deliveries : Arrive(c)
  \/ Validate
  \/ Discard

SnapshotSpec == SnapshotInit /\ [][SnapshotNext]_snapshotVars
-----------------------------------------------------------------------------
(* Properties. *)

Whole == FlattenSeq(Source)

\* The chunks the server sends, as a set.
Sent == {Chunk(SnapshotId, i - 1, Digest(Source[i]), Source[i]) : i \in DOMAIN Source}

Describes(m) ==
  /\ m.snapshot = SnapshotId /\ m.whole = Digest(Whole)
  /\ m.total = Len(Source) /\ Len(m.chunks) = Len(Source)
  /\ ToSet(m.chunks) = {Descriptor(i - 1, Source[i]) : i \in DOMAIN Source}

(* A manifest with the digest of the snapshot lets nothing through but the  *)
(* snapshot itself, in the right order and with nothing twice, whatever     *)
(* else is wrong with it and with what arrives; and a snapshot that has     *)
(* arrived whole, in whatever order, is not refused for its chunks          *)
(* (validate_manifest, validate_snapshot).                                  *)
SnapshotIsWholeOrRefused ==
  verdict # "None" =>
    /\ verdict = "Ok" /\ manifest.whole = Digest(Whole) =>
         /\ Len(received) = manifest.total
         /\ \A k \in DOMAIN received : Digest(received[k].payload) = received[k].sha256
         /\ FlattenSeq([i \in 1 .. manifest.total |->
              received[SelectInSeq(received, LAMBDA c : c.index = i - 1)].payload]) = Whole
    /\ Describes(manifest) /\ Len(received) = Len(Source) /\ ToSet(received) = Sent =>
         verdict \in {"Ok", "InvalidManifest"}
=============================================================================
