-------------------------------- MODULE Wire --------------------------------
(***************************************************************************)
(* The wire protocol (packages/protocol) and the board buffer that the     *)
(* page keeps from it: the binary frames, byte for byte, and the text      *)
(* frames by their kind.                                                   *)
(*                                                                         *)
(* A frame is a sequence of bytes, big-endian.  Byte is the number of      *)
(* values of a byte, 256 in the code; a smaller one brings the limits of   *)
(* the fields within reach.                                                *)
(***************************************************************************)
EXTENDS Integers, Sequences

CONSTANTS
  Byte,          \* values of a byte
  PaletteSize    \* colours of the palette; index 0 is the empty cell

\* The two op codes fit a byte.
ASSUME WireAssumption == Byte \in Nat /\ Byte > 2 /\ PaletteSize \in 1..Byte

U8  == 0..(Byte - 1)
U16 == 0..(Byte * Byte - 1)
U32 == 0..(Byte * Byte * Byte * Byte - 1)

\* PALETTE: the colours are their indices; the RGBA values are drawing.
Palette == 0..(PaletteSize - 1)
IsValidColorIndex(c) == c \in Palette
IsInBounds(x, y, width, height) == x \in 0..(width - 1) /\ y \in 0..(height - 1)
-----------------------------------------------------------------------------
(***************************************************************************)
(* DataView: setUint16 and setUint32 keep the low bytes of what they are   *)
(* given, and a read past the end throws.                                  *)
(***************************************************************************)
PutU8(v)  == <<v % Byte>>
PutU16(v) == <<(v \div Byte) % Byte, v % Byte>>
PutU32(v) == PutU16(v \div (Byte * Byte)) \o PutU16(v)

GetU8(buf, offset)  == buf[offset + 1]
GetU16(buf, offset) == buf[offset + 1] * Byte + buf[offset + 2]
GetU32(buf, offset) == GetU16(buf, offset) * (Byte * Byte) + GetU16(buf, offset + 2)

Throws == [throws |-> TRUE]
-----------------------------------------------------------------------------
OpSnapshot == 1
OpDelta == 2

SnapshotHeaderBytes == 9
DeltaHeaderBytes == 7
DeltaRecordBytes == 5

EncodeSnapshot(pixels, seq, width, height) ==
  IF Len(pixels) # width * height THEN Throws
  ELSE PutU8(OpSnapshot) \o PutU32(seq) \o PutU16(width) \o PutU16(height) \o pixels

\* slice() stops at the end of the buffer.
DecodeSnapshot(buf) ==
  IF Len(buf) < SnapshotHeaderBytes \/ GetU8(buf, 0) # OpSnapshot THEN Throws
  ELSE LET width  == GetU16(buf, 5)
           height == GetU16(buf, 7)
           end    == SnapshotHeaderBytes + width * height
       IN  [seq |-> GetU32(buf, 1), width |-> width, height |-> height,
            pixels |-> SubSeq(buf, SnapshotHeaderBytes + 1,
                              IF end < Len(buf) THEN end ELSE Len(buf))]

DeltaHeader(seq, count) == PutU8(OpDelta) \o PutU32(seq) \o PutU16(count)
DeltaRecord(w) == PutU16(w.x) \o PutU16(w.y) \o PutU8(w.color)

EncodeDelta(seq, writes) ==
  [i \in 1..(DeltaHeaderBytes + DeltaRecordBytes * Len(writes)) |->
    IF i <= DeltaHeaderBytes THEN DeltaHeader(seq, Len(writes))[i]
    ELSE LET k == i - DeltaHeaderBytes - 1
         IN  DeltaRecord(writes[(k \div DeltaRecordBytes) + 1])[(k % DeltaRecordBytes) + 1]]

WriteAt(buf, offset) ==
  [x |-> GetU16(buf, offset), y |-> GetU16(buf, offset + 2), color |-> GetU8(buf, offset + 4)]

DecodeDelta(buf) ==
  IF Len(buf) < DeltaHeaderBytes \/ GetU8(buf, 0) # OpDelta THEN Throws
  ELSE LET count == GetU16(buf, 5)
       IN  IF Len(buf) < DeltaHeaderBytes + DeltaRecordBytes * count THEN Throws
           ELSE [seq |-> GetU32(buf, 1),
                 writes |-> [k \in 1..count |->
                              WriteAt(buf, DeltaHeaderBytes + DeltaRecordBytes * (k - 1))]]
-----------------------------------------------------------------------------
(***************************************************************************)
(* BoardBuffer: pixels row by row from index 1, and what is drawn of them. *)
(***************************************************************************)
\* An entry of imageView: the empty cell is transparent, an index beyond the palette is
\* drawn as the first colour.
Ink(c) == IF c = 0 THEN "transparent" ELSE IF IsValidColorIndex(c) THEN c ELSE 0

Drawn(pixels) == [i \in DOMAIN pixels |-> Ink(pixels[i])]

NewBoard == [width |-> 0, height |-> 0, pixels |-> <<>>, imageView |-> <<>>,
             appliedSeq |-> -1, loaded |-> FALSE]

LoadSnapshot(board, snap) ==
  [width |-> snap.width, height |-> snap.height, pixels |-> snap.pixels,
   imageView |-> Drawn(snap.pixels), appliedSeq |-> snap.seq, loaded |-> TRUE]

Index(board, x, y) == y * board.width + x + 1
OnBoard(board, x, y) == board.loaded /\ IsInBounds(x, y, board.width, board.height)

\* A write outside the board is dropped.
SetPixel(board, w) ==
  IF ~OnBoard(board, w.x, w.y) THEN board
  ELSE [board EXCEPT !.pixels[Index(board, w.x, w.y)] = w.color,
                     !.imageView[Index(board, w.x, w.y)] = Ink(w.color)]

GetPixel(board, x, y) == IF OnBoard(board, x, y) THEN board.pixels[Index(board, x, y)] ELSE 0
ColorAt(board, x, y) == IF OnBoard(board, x, y) THEN board.pixels[Index(board, x, y)] ELSE -1

\* The board after the first n writes of a batch.
Written(board, writes) ==
  LET after[n \in 0..Len(writes)] ==
        IF n = 0 THEN board ELSE SetPixel(after[n - 1], writes[n])
  IN  after[Len(writes)]

\* A batch before the first snapshot, or not newer than the board, is ignored.
ApplyDelta(board, delta) ==
  IF ~board.loaded \/ delta.seq <= board.appliedSeq THEN board
  ELSE [Written(board, delta.writes) EXCEPT !.appliedSeq = delta.seq]

\* dimsChanged: rows are cut or padded with empty cells.
ResizeTo(board, width, height) ==
  IF ~board.loaded \/ (width = board.width /\ height = board.height) THEN board
  ELSE LET pixels == [i \in 1..(width * height) |->
                       GetPixel(board, (i - 1) % width, (i - 1) \div width)]
       IN  [board EXCEPT !.width = width, !.height = height,
                         !.pixels = pixels, !.imageView = Drawn(pixels)]

\* A frame is routed by its first byte; one that is neither is ignored.
ApplyBinary(board, buf) ==
  IF GetU8(buf, 0) = OpSnapshot THEN LoadSnapshot(board, DecodeSnapshot(buf))
  ELSE IF GetU8(buf, 0) = OpDelta THEN ApplyDelta(board, DecodeDelta(buf))
  ELSE board

\* paletteToRGBA, for pictures outside the page: every index has a colour, the empty cell
\* the first one.
Expanded(pixels) == [i \in DOMAIN pixels |-> IF IsValidColorIndex(pixels[i]) THEN pixels[i] ELSE 0]
-----------------------------------------------------------------------------
(***************************************************************************)
(* Pictures for the gallery: of the placement log, and of a snapshot.      *)
(***************************************************************************)
\* fetchPixelGridForGallery: the log in the order of versions, the last write of a cell
\* wins; none at all when the log is long.
PixelGrid(placements, width, height, cap) ==
  IF Len(placements) > cap THEN {}
  ELSE LET grid[n \in 0..Len(placements)] ==
             IF n = 0 THEN [i \in 1..(width * height) |-> 0]
             ELSE LET p == placements[n]
                  IN  IF IsInBounds(p.x, p.y, width, height)
                      THEN [grid[n - 1] EXCEPT ![p.y * width + p.x + 1] = p.color] ELSE grid[n - 1]
       IN  {grid[Len(placements)]}

\* Math.round(side * maxLong / long), never less than one.
Scaled(side, long, maxLong) ==
  LET rounded == (2 * side * maxLong + long) \div (2 * long)
  IN  IF rounded < 1 THEN 1 ELSE rounded

ThumbnailDimensions(width, height, maxLong) ==
  LET long == IF width < height THEN height ELSE width
  IN  IF maxLong <= 0 \/ long <= maxLong THEN [width |-> width, height |-> height]
      ELSE [width |-> Scaled(width, long, maxLong), height |-> Scaled(height, long, maxLong)]

\* The source columns (or rows) that are averaged in column t of the picture.
Span(t, source, target) ==
  LET from == (t * source) \div target
      to   == ((t + 1) * source) \div target
  IN  from..((IF to < from + 1 THEN from + 1 ELSE to) - 1)

\* A pixel of the picture is what it averages: its colours, each with the cells that have it.
RenderRgb(snap, target) ==
  LET Box(tx, ty) == Span(tx, snap.width, target.width) \X Span(ty, snap.height, target.height)
      Colour(cell) == Expanded(snap.pixels)[cell[2] * snap.width + cell[1] + 1]
  IN  [t \in (0..(target.width - 1)) \X (0..(target.height - 1)) |->
        [c \in {Colour(cell) : cell \in Box(t[1], t[2])} |->
          {cell \in Box(t[1], t[2]) : Colour(cell) = c}]]

\* Nothing is rendered of an empty blob.
RenderThumbnail(bytes, maxLong) ==
  IF bytes = <<>> THEN {}
  ELSE LET snap == DecodeSnapshot(bytes)
       IN  {RenderRgb(snap, ThumbnailDimensions(snap.width, snap.height, maxLong))}
-----------------------------------------------------------------------------
(***************************************************************************)
(* The text frames.                                                        *)
(***************************************************************************)
ClientMessages == {"place", "ping", "resync", "gaugePeek"}
ServerMessages == {"welcome", "ack", "cooldown", "gauge", "viewerCount", "resyncRequired",
                   "moderationEvent", "dimsChanged", "error", "pong"}
ErrorCodes == {"unauthenticated", "cooldown", "out_of_bounds", "invalid_color", "rate_limited",
               "banned", "internal", "frozen", "bad_request"}

\* Who takes a server frame in the page.
Route(t) ==
  CASE t = "welcome" -> "onWelcome"
    [] t \in {"ack", "error", "cooldown", "gauge"} -> "onPlacementFrame"
    [] t = "viewerCount" -> "onViewerCount"
    [] t = "resyncRequired" -> "onResyncRequired"
    [] t = "moderationEvent" -> "onModerationEvent"
    [] t = "dimsChanged" -> "onDimsChanged"
    [] OTHER -> "nobody"

\* The feedback an error gives its viewer.
ErrorFeedback(code) ==
  CASE code = "cooldown" -> "cooldown"
    [] code = "banned" -> "banned"
    [] code \in {"internal", "bad_request"} -> "error"
    [] OTHER -> "rejected"

Error(code, cid) == [t |-> "error", code |-> code, cid |-> cid]

\* onClientMessage: what the gateway answers before any handler of its own, or the handler
\* it calls.  Only the refusal of a placement names the op.
Dispatch(msg, allowed, anonymous) ==
  CASE ~allowed -> Error("rate_limited", "none")
    [] allowed /\ msg.t = "malformed" -> Error("bad_request", "none")
    [] allowed /\ msg.t = "ping" -> [t |-> "pong"]
    [] allowed /\ msg.t = "gaugePeek" -> [t |-> IF anonymous THEN "nothing" ELSE "sendGauge"]
    [] allowed /\ msg.t = "resync" -> [t |-> "handleResync"]
    [] allowed /\ msg.t = "place" -> IF anonymous THEN Error("unauthenticated", msg.cid)
                                     ELSE [t |-> "handlePlace"]
    [] OTHER -> Error("bad_request", "none")
=============================================================================
