------------------------------ MODULE MCFanout ------------------------------
(* Small instances of the realtime fan-out for TLC. *)
EXTENDS FanoutProps, Wire, TLC, SequencesExt

MCSymmetry == Permutations(Clients) \cup Permutations(Cells)

(* The wire protocol over frames of three-valued bytes: a field of two bytes  *)
(* holds 0 to 8, one of four bytes 0 to 80.                                   *)
Writes == [x: {0, 1, 8}, y: {0, 1, 8}, color: U8]
Batches(n) == UNION {[1..k -> Writes] : k \in 0..n}

\* What a gateway encodes is what a page decodes, as long as it fits its fields
\* (encodeDelta, decodeDelta, encodeSnapshot, decodeSnapshot).
ASSUME FramesSurvive ==
  /\ \A seq \in {0, 5, 80}, writes \in Batches(2) :
       DecodeDelta(EncodeDelta(seq, writes)) = [seq |-> seq, writes |-> writes]
  /\ \A w \in 1..2, h \in 0..2 : \A pixels \in [1..(w * h) -> U8] :
       DecodeSnapshot(EncodeSnapshot(pixels, 5, w, h)) =
         [seq |-> 5, width |-> w, height |-> h, pixels |-> pixels]

\* The count of a delta has 16 bits and the coalescer does not cut its batches: a batch of
\* as many cells as the field has values decodes as an empty one.
ASSUME BatchesWrap ==
  \A w \in Writes : DecodeDelta(EncodeDelta(1, [i \in 1..9 |-> w])).writes = <<>>

Loaded(w, h) == LoadSnapshot(NewBoard, [seq |-> 1, width |-> w, height |-> h,
                                        pixels |-> [i \in 1..(w * h) |-> i % 2]])
Deltas == {[seq |-> s, writes |-> b] : s \in 1..3, b \in Batches(2)}

\* A board shows, cell by cell, the newest write a fresh batch has for it, draws what it
\* holds, and is left alone by a stale batch (applyDelta, setPixel, imageView).
ASSUME BoardFollowsBatches ==
  \A d \in Deltas :
    LET b     == ApplyBinary(Loaded(2, 2), EncodeDelta(d.seq, d.writes))
        Hits(x, y) == {i \in DOMAIN d.writes : d.writes[i].x = x /\ d.writes[i].y = y}
    IN  /\ b.imageView = Drawn(b.pixels) /\ b.appliedSeq = IF d.seq > 1 THEN d.seq ELSE 1
        /\ \A x \in 0..1, y \in 0..1 :
             GetPixel(b, x, y) = IF d.seq > 1 /\ Hits(x, y) # {} THEN d.writes[Max(Hits(x, y))].color
                                 ELSE GetPixel(Loaded(2, 2), x, y)

\* A resize keeps every cell that both sizes have, at its coordinates, and empties the rest
\* (resizeTo).
ASSUME ResizeKeepsCells ==
  \A w \in 1..3, h \in 1..3, v \in 1..3, k \in 1..3 :
    LET b == ResizeTo(Loaded(w, h), v, k)
    IN  /\ b.imageView = Drawn(b.pixels) /\ Len(b.pixels) = v * k
        /\ \A x \in 0..(v - 1), y \in 0..(k - 1) :
             GetPixel(b, x, y) = GetPixel(Loaded(w, h), x, y)

\* Every verdict on a placement reaches the placement controller, and an error that names no
\* op is never about a placement that was handled.
ASSUME VerdictsReachTheController ==
  /\ \A t \in {"ack", "error", "cooldown"} : Route(t) = "onPlacementFrame"
  /\ \A t \in ClientMessages, ok \in BOOLEAN, anonymous \in BOOLEAN :
       LET answer == Dispatch([t |-> t, cid |-> "op"], ok, anonymous)
       IN  answer.t = "error" => (answer.cid = "op" <=> ok /\ t = "place")
  /\ \A code \in ErrorCodes : ErrorFeedback(code) \in {"cooldown", "banned", "rejected", "error"}

\* The gallery's grid of a canvas is the board of a page that saw the same writes from the
\* start (fetchPixelGridForGallery, applyDelta).
ASSUME GalleryShowsTheBoard ==
  \A writes \in Batches(2), w \in 1..2, h \in 1..2 :
    LET empty == LoadSnapshot(NewBoard, [seq |-> 0, width |-> w, height |-> h,
                                         pixels |-> [i \in 1..(w * h) |-> 0]])
    IN  PixelGrid(writes, w, h, 2) = {Written(empty, writes).pixels}

\* A preview has the shape of the canvas within its limit and averages every cell exactly
\* once, so that no pixel is too small to show (thumbnailDimensions, renderRgb).
ASSUME ThumbnailsShowEveryCell ==
  \A w \in 1..5, h \in 1..5, maxLong \in 1..5 :
    LET dims == ThumbnailDimensions(w, h, maxLong)
        snap == DecodeSnapshot(EncodeSnapshot([i \in 1..(w * h) |-> i % Byte], 1, w, h))
        rgb  == RenderRgb(snap, dims)
        Seen(t) == UNION {rgb[t][c] : c \in DOMAIN rgb[t]}
    IN  /\ dims.width \in 1..w /\ dims.height \in 1..h
        /\ dims.width <= maxLong /\ dims.height <= maxLong
        /\ \A x \in 0..(w - 1), y \in 0..(h - 1) :
             Cardinality({t \in DOMAIN rgb : <<x, y>> \in Seen(t)}) = 1
        /\ {rgb} = RenderThumbnail(EncodeSnapshot([i \in 1..(w * h) |-> i % Byte], 1, w, h), maxLong)
=============================================================================
