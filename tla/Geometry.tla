------------------------------ MODULE Geometry ------------------------------
(***************************************************************************)
(* The geometry of one canvas: who knows its width and height, and in      *)
(* which row stride its bytes are laid out.  Convex owns the durable       *)
(* dimensions (apps/convex/convex/canvases.ts); the gateway caches them    *)
(* (apps/gateway/src/canvasDims.ts, pubsub.ts) and, told of a resize by a  *)
(* scheduled post, rearranges the bytes (internalRoutes.ts,                *)
(* grid-resize.lua); the worker snapshots them (apps/worker/src/index.ts). *)
(*                                                                         *)
(* One step is one Convex transaction, one Redis script or one stretch of  *)
(* gateway code between two awaits.  Redis runs the gateway's commands in  *)
(* the order they were sent, so a placement or a snapshot read stands at   *)
(* the point where it is sent.                                             *)
(***************************************************************************)
EXTENDS Integers, Sequences, FiniteSets, SequencesExt

CONSTANTS
  Sides,      \* the whitelist of widths and heights
  Colors,     \* palette indexes; 0 is the empty cell
  Conns,      \* WebSocket connections to the canvas
  Fallback,   \* cfg.width, cfg.height: the dims of a gateway that knows nothing
  Ttl,        \* DIMS_TTL_MS, in clock ticks
  Scenarios   \* bounds used together: writes, resizes, clock ticks, faults

Dims == [w: Sides, h: Sides]
NoDims == [w |-> 0, h |-> 0]

ASSUME GeometryAssumption ==
  /\ Sides \subseteq Nat \ {0} /\ IsFiniteSet(Sides) /\ Fallback \in Dims
  /\ Colors \subseteq Nat /\ 0 \in Colors /\ Ttl \in Nat \ {0}
  /\ Scenarios \subseteq [writes: Nat, resizes: Nat, time: Nat, faults: Nat]

MaxSide == CHOOSE s \in Sides : \A t \in Sides : t <= s
AllCells == (0..MaxSide - 1) \X (0..MaxSide - 1)
In(c, d) == c[1] < d.w /\ c[2] < d.h
Frame(d) == {c \in AllCells : In(c, d)}
Offsets == 0..MaxSide * MaxSide - 1
OffsetOf(c, d) == c[2] * d.w + c[1]

VARIABLES
  scenario,    \* the member of Scenarios explored; never changes
  dims,        \* Convex canvases.width, height
  rows,        \* Convex placements: the versions that have a row
  cellCount,   \* Convex canvases.cellCount
  posts,       \* scheduled UNAUTH_notifyGatewayResize actions, with their order
  resizes,     \* how many resizes have committed
  written,     \* every accepted placement in version order
  drained,     \* how many of them the worker has ingested
  bytes,       \* Redis canvas:{id}:pixels, blank past its end
  cache,       \* CanvasDimsCache entry
  state,       \* canvasStates dims; NoDims without an entry
  fetch,       \* the inflight getCanvasDimsById and who awaits it
  jobs,        \* handleGridResize calls whose script ran and that await its reply
  boards,      \* the dims each connection last heard; NoDims when closed
  joining,     \* connections waiting in ensureCanvasSubscribed
  now,         \* the gateway's clock
  snap,        \* the latest durable snapshot
  nudged,      \* a flush request no tick has answered yet
  faults,      \* lost posts and failed fetches so far
  layout,      \* (history) the dims the bytes are laid out for
  stray,       \* (history) versions in the stream while a frame without their cell was decided or due
  cut,         \* (history) cells cropped since the latest snapshot
  races        \* (history) what happened of the things the code does not guard against

convexVars == <<dims, rows, cellCount, posts, resizes>>
redisVars == <<written, bytes, layout, cut>>
gatewayVars == <<cache, state, fetch, jobs, boards, joining>>
workerVars == <<drained, snap, nudged>>
geoVars == <<scenario, convexVars, redisVars, gatewayVars, workerVars, now, faults, stray, races>>

NoFetch == [pc |-> "none", at |-> 0, val |-> NoDims, pixels |-> {}]
NoCache == [dims |-> NoDims, at |-> 0]
NoSnap == [dims |-> NoDims, version |-> 0, at |-> [c \in AllCells |-> 0]]

GeoInit ==
  /\ scenario \in Scenarios
  /\ dims \in Dims /\ rows = {} /\ cellCount = 0 /\ posts = {} /\ resizes = 0
  /\ written = <<>> /\ drained = 0
  /\ bytes = [o \in Offsets |-> 0] /\ layout = dims /\ cut = {}
  /\ cache = NoCache /\ state = NoDims /\ fetch = NoFetch /\ jobs = {}
  /\ boards = [c \in Conns |-> NoDims] /\ joining = {}
  /\ now = 0 /\ snap = NoSnap /\ nudged = FALSE /\ faults = 0
  /\ stray = {} /\ races = {}
-----------------------------------------------------------------------------
(***************************************************************************)
(* Convex.  A version is an index of `written`.                            *)
(***************************************************************************)
Newest(S) == CHOOSE v \in S : \A u \in S : u <= v
On(c, versions) == {v \in versions : written[v].cell = c}
ColorOn(c, versions) ==
  IF On(c, versions) = {} THEN 0 ELSE written[Newest(On(c, versions))].color

\* latestCellsFromPlacements, the non-empty ones.
Painted(versions) == {c \in AllCells : ColorOn(c, versions) > 0}

\* The owner resizes: painted cells outside the new frame ask for confirmation (no
\* write at all), then rows and count are cut to it and the gateway's post is scheduled.
UpdateCanvasConfig(d, confirmed) ==
  /\ resizes < scenario.resizes
  /\ LET lost == Painted(rows) \ Frame(d)
     IN  /\ (d.w < dims.w \/ d.h < dims.h) /\ lost # {} => confirmed
         /\ rows' = {v \in rows : In(written[v].cell, d)}
         /\ cellCount' = Cardinality(Painted(rows) \cap Frame(d))
  /\ dims' = d
  /\ posts' = posts \cup {[d |-> d, n |-> resizes]}
  /\ resizes' = resizes + 1
  /\ stray' = stray \cup {v \in drained + 1..Len(written) : ~In(written[v].cell, d)}
  /\ UNCHANGED <<scenario, redisVars, gatewayVars, workerVars, now, faults, races>>

\* applyFlush on the next entry of the stream, whatever frame it falls in.
Ingest ==
  /\ drained < Len(written)
  /\ LET v == drained + 1
         was == ColorOn(written[v].cell, rows)
         is == written[v].color
     IN  cellCount' = cellCount + (IF is > 0 THEN 1 ELSE 0) - (IF was > 0 THEN 1 ELSE 0)
  /\ rows' = rows \cup {drained + 1}
  /\ drained' = drained + 1
  /\ UNCHANGED <<scenario, dims, posts, resizes, redisVars, gatewayVars, snap, nudged,
                 now, faults, stray, races>>

\* gatewayPost fails: the action logs it and is done.
LosePost(p) ==
  /\ faults < scenario.faults /\ p \in posts
  /\ posts' = posts \ {p} /\ faults' = faults + 1
  /\ races' = races \cup {"lost_post"}
  /\ UNCHANGED <<scenario, dims, rows, cellCount, resizes, redisVars, gatewayVars, workerVars,
                 now, stray>>
-----------------------------------------------------------------------------
(***************************************************************************)
(* Redis: place.lua on the bitmap, and grid-resize.lua.                    *)
(***************************************************************************)
\* The bytes read as a grid of the given dims: readCanvasSnapshot.
Shows(b, d, c) == IF In(c, d) THEN b[OffsetOf(c, d)] ELSE 0
Grid(b, d) == [c \in AllCells |-> Shows(b, d, c)]

\* (mutated) The bytes are kept as they are, cut to the new length.
RelayoutFlat(b, old, new) ==
  [o \in Offsets |-> IF o < new.w * new.h THEN b[o] ELSE 0]

\* The rows both frames have, cut or padded to the new width; the rest is blank.
Relayout(b, old, new) ==
  [o \in Offsets |->
     LET c == <<o % new.w, o \div new.w>>
     IN  IF In(c, new) /\ In(c, old) THEN b[OffsetOf(c, old)] ELSE 0]

\* The bitmap write of place.lua with the width the gateway gave it; `past` is what
\* happened of the races before it.
Written(p, d, past) ==
  /\ written' = Append(written, p)
  /\ bytes' = [bytes EXCEPT ![OffsetOf(p.cell, d)] = p.color]
  /\ stray' = IF \A d2 \in {dims} \cup {q.d : q \in posts} : In(p.cell, d2)
              THEN stray ELSE stray \cup {Len(written) + 1}
  /\ races' = IF d.w = layout.w /\ In(p.cell, layout) THEN past
              ELSE past \cup {IF d = dims THEN "healed_early" ELSE "wrong_stride"}
-----------------------------------------------------------------------------
(***************************************************************************)
(* The gateway's cache of dims (canvasDims.ts) and what awaits it.         *)
(***************************************************************************)
Fresh == cache.dims # NoDims /\ cache.at + Ttl > now
Live == {c \in Conns : boards[c] # NoDims} \cup joining

\* resolve and forceResolve share the inflight fetch.
Fetching(pixels) ==
  fetch' = IF fetch.pc = "none" THEN [NoFetch EXCEPT !.pc = "sent", !.at = now, !.pixels = pixels]
           ELSE [fetch EXCEPT !.pixels = @ \cup pixels]

\* ensureCanvasSubscribed, then sendInitialState: at once when the canvas has an entry
\* or a fresh cached geometry, after the fetch otherwise.
Connect(c) ==
  /\ c \notin Live
  /\ IF state # NoDims \/ Fresh
     THEN /\ state' = IF state # NoDims THEN state ELSE cache.dims
          /\ boards' = [boards EXCEPT ![c] = state']
          /\ races' = IF state' # dims /\ posts = {} /\ jobs = {}
                      THEN races \cup {"stale_join"} ELSE races
          /\ UNCHANGED <<joining, fetch>>
     ELSE /\ joining' = joining \cup {c} /\ Fetching({})
          /\ UNCHANGED <<state, boards, races>>
  /\ UNCHANGED <<scenario, convexVars, redisVars, cache, jobs, workerVars, now, faults, stray>>

\* The last one out takes the entry with it (reapCanvasIfEmpty); a resize that holds
\* the entry goes on with an entry nobody reads.
Disconnect(c) ==
  /\ c \in Live
  /\ boards' = [boards EXCEPT ![c] = NoDims] /\ joining' = joining \ {c}
  /\ IF Live = {c} THEN /\ state' = NoDims
                        /\ jobs' = {[j EXCEPT !.entry = FALSE] : j \in jobs}
                   ELSE UNCHANGED <<state, jobs>>
  /\ UNCHANGED <<scenario, convexVars, redisVars, cache, fetch, workerVars, now, faults, stray, races>>

\* The durable dims are read somewhere between the call and its answer.
FetchReads ==
  /\ fetch.pc = "sent"
  /\ fetch' = [fetch EXCEPT !.pc = "read", !.val = dims]
  /\ UNCHANGED <<scenario, convexVars, redisVars, cache, state, jobs, boards, joining, workerVars,
                 now, faults, stray, races>>

\* Who awaited the fetch goes on with `d`: the joining connections, then the pixel
\* that was out of bounds of the cached dims, if it is inside d.
Resume(d) ==
  /\ state' = IF joining # {} /\ state = NoDims THEN d ELSE state
  /\ boards' = [c \in Conns |-> IF c \in joining THEN state' ELSE boards[c]]
  /\ joining' = {}
  /\ fetch' = NoFetch
  /\ LET stale == state' \notin {NoDims, dims} /\ posts = {} /\ jobs = {}
         past == IF stale THEN races \cup {"stale_join"} ELSE races
     IN  \/ /\ \A p \in fetch.pixels : ~In(p.cell, d)
            /\ races' = past
            /\ UNCHANGED <<written, bytes, stray>>
         \/ \E p \in fetch.pixels : In(p.cell, d) /\ Written(p, d, past)

\* (mutated) A fetched geometry always replaces the cached one.
FetchReturnsAlways ==
  /\ fetch.pc = "read"
  /\ cache' = [dims |-> fetch.val, at |-> now]
  /\ Resume(fetch.val)
  /\ UNCHANGED <<scenario, convexVars, layout, cut, jobs, workerVars, now, faults>>

\* _fetch: the answer is cached unless the entry was written after the fetch started
\* (in an earlier tick of the clock it cannot tell), and is returned in any case.
FetchReturns ==
  /\ fetch.pc = "read"
  /\ cache' = IF cache.dims = NoDims \/ cache.at <= fetch.at
              THEN [dims |-> fetch.val, at |-> now] ELSE cache
  /\ Resume(fetch.val)
  /\ UNCHANGED <<scenario, convexVars, layout, cut, jobs, workerVars, now, faults>>

\* A failed fetch answers with the cached dims, however old, or with the fallback.
FetchFails ==
  /\ fetch.pc # "none" /\ faults < scenario.faults
  /\ faults' = faults + 1
  /\ Resume(IF cache.dims # NoDims THEN cache.dims ELSE Fallback)
  /\ UNCHANGED <<scenario, convexVars, layout, cut, cache, jobs, workerVars, now>>

\* A pixel inside the cached dims goes straight to Redis with them.
Place(p) ==
  /\ cache.dims # NoDims /\ Live # {} /\ Len(written) < scenario.writes
  /\ In(p.cell, cache.dims)
  /\ Written(p, cache.dims, races)
  /\ UNCHANGED <<scenario, convexVars, layout, cut, gatewayVars, workerVars, now, faults>>

\* A pixel outside them waits for the durable dims (the scheduling gap of a resize).
PlaceOutside(p) ==
  /\ cache.dims # NoDims /\ Live # {} /\ Len(written) < scenario.writes
  /\ fetch.pixels = {} /\ ~In(p.cell, cache.dims)
  /\ Fetching({p})
  /\ UNCHANGED <<scenario, convexVars, redisVars, cache, state, jobs, boards, joining, workerVars,
                 now, faults, stray, races>>
-----------------------------------------------------------------------------
(***************************************************************************)
(* handleGridResize, up to the relayout script and after its reply.        *)
(***************************************************************************)
OldDims == IF state # NoDims THEN state ELSE IF cache.dims # NoDims THEN cache.dims ELSE Fallback

StartResize(p) ==
  /\ p \in posts
  /\ posts' = posts \ {p}
  /\ jobs' = jobs \cup {[d |-> p.d, n |-> p.n, entry |-> state # NoDims]}
  /\ bytes' = Relayout(bytes, OldDims, p.d) /\ layout' = p.d
  /\ cut' = cut \cup (AllCells \ Frame(p.d))
  /\ races' = races \cup (IF OldDims # layout THEN {"wrong_old_dims"} ELSE {})
                    \cup (IF \E q \in posts \cup jobs : q.n < p.n THEN {"overtaking"} ELSE {})
  /\ UNCHANGED <<scenario, dims, rows, cellCount, resizes, written, cache, state, fetch, boards,
                 joining, workerVars, now, faults, stray>>

\* Cache and entry take the new dims, every connection hears of them with a fresh
\* snapshot, and the worker is asked for a flush.
FinishResize(j) ==
  /\ j \in jobs
  /\ jobs' = jobs \ {j}
  /\ cache' = [dims |-> j.d, at |-> now]
  /\ state' = IF j.entry THEN j.d ELSE state
  /\ boards' = [c \in Conns |-> IF boards[c] # NoDims THEN j.d ELSE NoDims]
  /\ nudged' = TRUE
  /\ races' = races \cup (IF ~j.entry /\ state \notin {NoDims, j.d} THEN {"detached"} ELSE {})
                    \cup (IF fetch.pc # "none" /\ fetch.at = now THEN {"same_tick"} ELSE {})
  /\ UNCHANGED <<scenario, convexVars, redisVars, fetch, joining, drained, snap, now, faults, stray>>
-----------------------------------------------------------------------------
(***************************************************************************)
(* The worker's tick, and the clock.                                       *)
(***************************************************************************)
\* A tick drains, reads the durable dims and records a snapshot when a placement came
\* since the last one (bound: SNAPSHOT_EVERY_N_VERSIONS is 1).
Tick ==
  /\ drained = Len(written)
  /\ nudged \/ drained > snap.version
  /\ nudged' = FALSE
  /\ IF drained > snap.version
     THEN /\ snap' = [dims |-> dims, version |-> drained, at |-> Grid(bytes, dims)]
          /\ cut' = {}
          /\ races' = IF layout # dims THEN races \cup {"snapshot_in_gap"} ELSE races
     ELSE UNCHANGED <<snap, cut, races>>
  /\ UNCHANGED <<scenario, convexVars, written, bytes, layout, gatewayVars, drained, now, faults, stray>>

ClockTick ==
  /\ now < scenario.time
  /\ now' = now + 1
  /\ UNCHANGED <<scenario, convexVars, redisVars, gatewayVars, workerVars, faults, stray, races>>

\* (mutated) cropPadPixels is a flat copy.
CropPadFlat(s, d) == [c \in AllCells |->
  IF ~In(c, d) \/ OffsetOf(c, d) >= s.dims.w * s.dims.h THEN 0
  ELSE s.at[<<OffsetOf(c, d) % s.dims.w, OffsetOf(c, d) \div s.dims.w>>]]

\* What the snapshot shows in other dims (cropPadPixels): row by row.
CropPad(s, d) == [c \in AllCells |-> IF In(c, d) THEN s.at[c] ELSE 0]

\* What a restore at the durable dims would rebuild (reconstructPixels).
Restored ==
  [c \in AllCells |->
     LET tail == {v \in rows : v > snap.version /\ written[v].cell = c}
     IN  IF ~In(c, dims) THEN 0
         ELSE IF tail # {} THEN written[Newest(tail)].color
         ELSE IF snap.dims = NoDims THEN 0 ELSE CropPad(snap, dims)[c]]

Pixels == [cell: AllCells, color: Colors]
Convex == \/ \E d \in Dims, confirmed \in BOOLEAN : UpdateCanvasConfig(d, confirmed)
          \/ \E p \in posts : LosePost(p)
Gateway == \/ \E c \in Conns : Connect(c) \/ Disconnect(c)
           \/ FetchReads \/ FetchReturns \/ FetchFails
           \/ \E p \in Pixels : Place(p) \/ PlaceOutside(p)
           \/ \E p \in posts : StartResize(p)
           \/ \E j \in jobs : FinishResize(j)
Worker == Ingest \/ Tick

GeoNext == Convex \/ Gateway \/ Worker \/ ClockTick
GeoSpec == GeoInit /\ [][GeoNext]_geoVars
-----------------------------------------------------------------------------
(***************************************************************************)
(* What resizing a canvas must preserve.                                   *)
(***************************************************************************)

\* Nothing of a resize is still under way.
Settled == posts = {} /\ jobs = {} /\ fetch.pc = "none"

\* The log as the canvas should show it: durable rows and what is still in the stream.
Logged == rows \cup (drained + 1..Len(written))
Unstray(c) == \A v \in stray : written[v].cell # c

\* Once a resize has settled, the gateway's cache, the subscribed canvas, the bytes and
\* every connected client agree with the durable dims, whatever fetches, joins and
\* leaves it met, unless one of the named races occurred.
GatewayFollowsConvex ==
  Settled /\ races = {} =>
    /\ layout = dims
    /\ cache.dims \in {NoDims, dims} /\ state \in {NoDims, dims}
    /\ \A c \in Conns : boards[c] \in {NoDims, dims}

\* The bytes, read in the durable dims, show the newest placement of every cell and
\* blank where the frame cut: a relayout moves every pixel of the frame with its cell.
BytesShowLog ==
  Settled /\ races = {} =>
    \A c \in Frame(dims) : Unstray(c) => Shows(bytes, dims, c) = ColorOn(c, Logged)

\* What a cold start would rebuild is what the bytes show, a snapshot of an older frame
\* included, except on cells that were cut and came back since that snapshot.
RestoreShowsLive ==
  Settled /\ races = {} /\ drained = Len(written) =>
    \A c \in Frame(dims) \ cut : Unstray(c) => Restored[c] = Shows(bytes, dims, c)

\* A pixel refused by the cached dims and placed with the fresh ones ("self-heal",
\* placement.ts) shows where it was placed once the resize has settled: it must not be
\* written in a stride the bytes do not have yet.  Between updateCanvasConfig and the
\* relayout it is: this does not hold, and no run checks it.
HealedPixelsStayInPlace ==
  Settled /\ races \subseteq {"healed_early"} =>
    \A c \in Frame(dims) : Unstray(c) => Shows(bytes, dims, c) = ColorOn(c, Logged)
=============================================================================
