--------------------------------- MODULE Codecs ---------------------------------
(***************************************************************************)
(* The two decoders behind every file extension: the one shared by WAV,    *)
(* FLAC, MP3 and AAC (decoders/mod.rs) and the Ogg Opus one                *)
(* (decoders/opus.rs), as functions of a codec record.  A stream is a      *)
(* number of packets of PacketFrames frames each; samples are abstracted   *)
(* to the number of the frame they belong to.                              *)
(***************************************************************************)
EXTENDS Integers, FiniteSets, FiniteSetsExt

CONSTANTS
  Frames,        \* playable frames of the file
  PacketFrames,  \* frames one packet decodes to
  PreSkip        \* frames an Opus stream asks to drop at its start

ASSUME StreamAssumption ==
  /\ Frames \in Nat \ {0} /\ PacketFrames \in Nat \ {0} /\ PreSkip \in Nat

Kinds == {"Symphonia", "Opus"}
Lower(a, b) == IF a < b THEN a ELSE b
Higher(a, b) == IF a < b THEN b ELSE a

\* Frames in front of the playable ones, and packets of the whole stream.
Lead(kind) == IF kind = "Opus" THEN PreSkip ELSE 0
Packets(kind) == (Frames + Lead(kind) + PacketFrames - 1) \div PacketFrames

\* pending: decoded frames not yet delivered, from inclusive to exclusive.
\* skip: frames still to drop, after the start (Opus) or after a seek.
NewCodec(kind) ==
  [kind |-> kind, open |-> FALSE, packet |-> 0, skip |-> 0,
   pending |-> [from |-> 0, to |-> 0], emitted |-> 0, eof |-> FALSE,
   cancelled |-> FALSE, closed |-> FALSE]

Remaining(c) == c.pending.to - c.pending.from

\* The next playable frame a decode call would deliver.
Position(c) ==
  IF Remaining(c) > 0 THEN c.pending.from
  ELSE IF c.open
       THEN Lower(Frames, c.packet * PacketFrames + c.skip - Lead(c.kind))
       ELSE 0

\* Headers read, decoder built, the reader before the first packet.
Opened(c) == [c EXCEPT !.open = TRUE, !.packet = 0, !.skip = Lead(c.kind)]

Without(c) == [c EXCEPT !.open = FALSE, !.pending = [from |-> 0, to |-> 0]]

\* reopen: back to a codec that has read nothing.
Reopened(c) == NewCodec(c.kind)

Closed(c) == [Without(c) EXCEPT !.closed = TRUE]
Cancelled(c) == [Without(c) EXCEPT !.cancelled = TRUE]

CopyPending(c, room) ==
  LET count == Lower(Remaining(c), room) IN
    [c EXCEPT !.pending.from = @ + count, !.emitted = @ + count]

\* One turn of fill_pending's loop: a packet is decoded and what has to be
\* skipped is dropped from it; past the last packet the stream has ended.
SymphoniaPacket(c) ==
  LET first == c.packet * PacketFrames
      last == Lower(first + PacketFrames, Frames)
      drop == Lower(c.skip, last - first)
  IN IF c.packet = Packets(c.kind)
     THEN [c EXCEPT !.eof = TRUE]
     ELSE [c EXCEPT !.packet = @ + 1, !.skip = @ - drop,
                    !.pending = [from |-> first + drop, to |-> last]]

\* The last packet also ends the stream, and is cut to the frames the
\* granule position leaves.
OpusPacket(c) ==
  LET first == c.packet * PacketFrames - PreSkip
      drop == Lower(c.skip, PacketFrames)
      last == c.packet + 1 = Packets(c.kind)
      keep == IF last THEN Lower(PacketFrames - drop, Higher(Frames - c.emitted, 0))
                      ELSE PacketFrames - drop
  IN IF c.packet = Packets(c.kind)
     THEN [c EXCEPT !.eof = TRUE]
     ELSE [c EXCEPT !.packet = @ + 1, !.skip = @ - drop, !.eof = last,
                    !.pending = [from |-> first + drop,
                                 to |-> first + drop + keep]]

NextPacket(c) ==
  IF c.kind = "Opus" THEN OpusPacket(c) ELSE SymphoniaPacket(c)

\* What decode says of the end when it returns. Without room it says eof as
\* it stands, whatever is still pending.
EndOfStream(c, room) == c.eof /\ (room = 0 \/ Remaining(c) = 0)

\* The codecs that may come out of a seek to this frame; none: it fails.
\* A container lands on some packet at or before the target.
SymphoniaSeeks(c, target) ==
  {[c EXCEPT !.packet = k, !.skip = target - k * PacketFrames, !.eof = FALSE,
             !.pending = [from |-> 0, to |-> 0]]
     : k \in {k \in 0 .. Packets(c.kind) : target <= Frames
                                           /\ k * PacketFrames <= target}}

\* The playable frames up to the end of a packet.
EndOfPacket(k) == Higher(Lower((k + 1) * PacketFrames - PreSkip, Frames), 0)

\* Opus decodes from the start until a packet reaches the target.
OpusSeeks(c, target) ==
  LET reaching == {k \in 0 .. Packets(c.kind) - 1 : EndOfPacket(k) >= target}
      k == Min(reaching)
  IN IF reaching = {} THEN {}
     ELSE {[c EXCEPT !.packet = k + 1, !.emitted = target,
                     !.skip = Higher(PreSkip - (k + 1) * PacketFrames, 0),
                     !.pending = [from |-> target, to |-> EndOfPacket(k)],
                     !.eof = k + 1 = Packets(c.kind) /\ EndOfPacket(k) = target]}

Seeks(c, target) ==
  IF c.kind = "Opus" THEN OpusSeeks(c, target) ELSE SymphoniaSeeks(c, target)
=================================================================================
