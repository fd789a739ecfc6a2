# LivePlace: a TLA+ verification project

LivePlace is a realtime pixel canvas: viewers place coloured pixels on a shared grid, each
placement costs a charge of a gauge that refills with time, everyone sees every placement at
once, and the canvas survives restarts. This directory models the parts of it where order,
concurrency and failure matter, checks them with TLC and proves the central results with TLAPS.

## 1. The system

| Component | State | Operations | Talks to |
|---|---|---|---|
| Hot-path scripts (`packages/redis-scripts`) | per canvas in Redis: bitmap `pixels`, version counter `meta`, `stream`, gauges, op claims, ban set, frozen flag | `place.lua`, `moderate.lua`, `grant.lua`, `refill-peek.lua`, `grid-resize.lua`, each atomic | publish each write on a pub/sub channel, append it to the stream |
| Gateway (`apps/gateway`) | per process: connections, one subscription, ring buffer and coalescer per canvas, cached dimensions and bonuses | place, hello/resync, pub/sub delivery, coalesced flush, internal HTTP routes (moderation, resize, ban, freeze, gauge claim, purge) | Redis scripts and pub/sub; Convex for dimensions and bonuses; browsers over WebSocket |
| Persistence worker (`apps/worker`) | per canvas: stream cursor, snapshot bookkeeping; a Redis lock | boot, restore, one-shot rebuild, tick (drain, snapshot, thumbnail), flush nudge, shutdown | reads Redis, calls Convex |
| Convex backend (`apps/convex`) | `placements`, `snapshots`, `flushState`, `userCanvasStats`, `canvases`, moderation events, profiles | transactions: `applyFlush`, `recordSnapshot`, canvas configuration and resize, moderation, tier claims, account purge, Twitch live state | the gateway's internal routes |
| Web client (`apps/web`) | board buffer with the last applied version, optimistic placements, gauge display | connect/reconnect, apply snapshot and deltas, place, batch place | the gateway |
| Shared rules (`packages/points-rules`, `canvas-rules`, `protocol`, `i18n`) | none | tier thresholds, upgrade costs, limits, frame encoding, messages | everyone |

How they interact: a placement is one Lua script that sets the byte, mints the version, appends
the stream entry, publishes the delta and consumes the charge. Two consumers follow: the gateway
processes fan the delta out to browsers (lossy, repaired by resync), and the worker drains the
stream into Convex (at least once, made exactly once by skipping versions already durable). A
snapshot of the bitmap is recorded from time to time; a worker that boots on an empty Redis
rebuilds the canvas from the latest snapshot and the durable placements after it.

What is hard: two workers under a lock whose TTL may expire; crashes and late commits between
the flush, the trim and the cursor; loss of Redis while the durable side keeps going; frames
that overtake each other on their way to a browser; resize, moderation and placement racing on
stale geometry; retries of an operation already done. `PROJECT.json` lists them by line.

## 2. The modules

| Module | Models | Depends on |
|---|---|---|
| `PlacementLog` | what persistence promises: accepted writes become durable in order, without gaps, each credited once | - |
| `Drain` | the hot-path scripts' effect on the durable side, the worker's tick and `worker:applyFlush` | - |
| `DrainProps` | its type invariant, safety, liveness, and the refinement of `PlacementLog` | `Drain`, `PlacementLog` |
| `Recovery` | snapshots, cold-start restore and losses of Redis, around `Drain` | `Drain` |
| `RecoveryProps`, `RecoveryProofs` | its properties; the proofs about the drain and about it | `Recovery`, `DrainProps` |
| `CanvasMirror` | what viewers are promised: each sees the canvas as of some write, and only moves forward | - |
| `Fanout` | one gateway process: subscription, coalescer, ring, initial state, resync; and the page's board | - |
| `FanoutProps` | its properties and the refinement of `CanvasMirror` | `Fanout`, `CanvasMirror` |
| `PlaceScript` | the gauge arithmetic of `place.lua`, `grant.lua`, `refill-peek.lua` and `gauge.ts` | - |
| `Charges` | one viewer's economy: charges, points, tiers, grants, cached ceilings | `PlaceScript` |
| `ChargesProps` | its properties | `Charges` |
| `GatewayProofs` | the proofs about the fan-out, about the economy, and about the frames and rules both use | `FanoutProps`, `ChargesProps`, `Wire`, `Rules` |
| `Placing`, `PlacingProps`, `PlacingProofs` | a tap from the optimistic client through the gateway and the op claims to its verdict; its properties and proofs | `PlaceScript` |
| `Worker`, `WorkerProofs` | the worker around its drain: boot, one-shot rebuild, flush triggers, failing ticks, shutdown; the proofs | - |
| `Geometry`, `GeometryProofs` | who knows the dimensions, and in which stride the bytes are laid out; the proofs | - |
| `Moderation`, `ModerationProps`, `ModerationProofs` | the moderation actions from the Convex action to `moderate.lua` and back, previews, gates, Twitch moderators | - |
| `Ownership` | sign-up, personal canvases, creation, activation, archiving, slugs and links | - |
| `TwitchLive` | the cron that keeps the live badge | `Ownership` |
| `Erasure`, `ErasureProofs` | account deletion against connections, worker, moderators, cron and new canvases | `TwitchLive` |
| `Gestures` | pointers, the long-press timer and the keyboard of the canvas element, as the hook they fire | - |
| `NetClient` | sockets, ticket fetches, backoff, offline and the auth flip of the page | - |
| `Posing` | the canvas page: modes, batch, pixel panel, placement state, tier claims, the trip to Twitch | `Gestures`, `NetClient` |
| `Studio` | the owner's studio: settings form, list of canvases, freeze, crisis console, creation page | - |
| `Tab`, `TabProofs` | one browser tab on the canvas page or in the studio, the properties of both pages, and the proofs | `Posing`, `Studio` |
| `Wire` | the binary and text frames, the page's board buffer, what becomes of each message, the gallery's pictures | - |
| `Keys` | names of keys and channels, arguments and replies of the scripts, stream records | - |
| `Rules` | tiers, bonus, permission to place, event window, countdown, token bucket, pixel author, the gallery's fields and feed | `PlaceScript` |
| `MC*` | instances for TLC; those of the last three compare them with reference definitions | the components |

Definitions marked "(mutated)" are wrong forms of the definition that follows them. No
specification uses them; they exist to confirm that the properties can fail.

### Drain

One canvas. `written` is the history of accepted writes; a stream id identifies a write, and a
byte of the bitmap is represented by the id of the write that set it. `Place` and `Moderate` are
the effects of the scripts once they accept; `Capped` is `XADD MAXLEN ~`, which may or may not
trim. A worker is `down`, `idle`, or inside a tick: `drain` (about to `XREAD`), `flush` (awaiting
`applyFlush`), `flushed` (about to trim and move its cursor), `drained`. Every awaited call is a
point where other actors run, where the call may fail (`TickError`) or the process die (`Crash`);
a request given up in `flush` becomes an orphan that may commit at any later time. The lock may
expire at any time. The loop guard of fifty rounds is a nondeterministic exit after a full
batch. `applyFlush` is one transaction: duplicate skip, accrual, cursor and cell count.

### Recovery

Extends `Drain`. `stage` is what a worker does outside the drain loop: the boot-time restore
(`meta`, `base`, `tail` page by page, `write`), and the snapshot at the end of a tick (`build`,
`upload`). `snapshots` is kept in creation order because `getLatestSnapshot` reads the row
created last whereas compaction keeps the highest versions. `Wipe` empties Redis; `Rollback`
brings it back from what `Fsync` last wrote. The geometry is constant here.

The variable `careful`, chosen at the start and never changed, decides whether the operators keep a
discipline that the code does not enforce: the volume is lost while no worker runs and no request
is in flight, and no write reaches the canvas before its restore. What holds only under it shows
what the code relies on; one run explores both kinds of behaviour.

### Fanout

One canvas, one gateway process. The write `n` is the n-th publication, a cell of a board holds
the number of the write it shows. Redis executes each connection's commands in order, but the
subscriber connection and the command connection are two: `toRedis` and `fromRedis` are the
first, `reads` the second, and that is where the interleavings are. `Connect` subscribes when
there is no entry, `DimsResolved` is the resumption after the awaited dimensions, `SendSnapshot`
the arrival of a snapshot read. `LastGone`/`Discard` are the reap. `Deliver`, `Flush` and `Batch`
are the pub/sub callback and the coalescer; `HandleResync` answers from the ring or with a fresh
snapshot. A moderation is one publication per cell. A snapshot read that fails closes the socket
and is subsumed by `Drop`. `Outage` loses the subscriber connection and `Restart` the process;
Redis itself loses nothing here and the dimensions are constant.

The variable `calm`, chosen at the start, excludes the windows the code leaves open: in a calm
behaviour no write is published while a subscribe command or a snapshot read is outstanding or
deltas of a closed subscription are on the wire, and the subscriber connection neither breaks nor
refuses. `ImplementsMirror` is stated for calm behaviours: these windows are the only way to a
wrong board. `EntryIsSubscribed` and `Heals` are stated for all of them.

### PlaceScript and Charges

`Refilled` is `refillGauge`, of which the three scripts have a copy; `Stored`, `Consumed` and
`Granted` are what the scripts write back. An expired hash is one whose `dies` has passed.
`Charges` follows one viewer on one canvas: `Place` is the handler and the script at once (a
cooldown stores nothing), `Accrue` the drain's credit of one placement, at any later time and in
order, which `Drain` establishes. `ClaimTier` is the Convex mutation together with the dispatch
it starts; `PostLost` and `PostArrives` are the fate of the dispatch; a job is one execution of
`grantUserCharge`, which refreshes the sessions one at a time (`AskNext`, then `Refresh` or
`RefreshFails`) and then grants. `Answer` separates the moment Convex reads the bonus from the
moment the session caches it, so answers may be applied out of order. Every session opens once;
there is one gateway process, whose clock is the only one. `ChargesAssumption` says that an idle
gauge fills before its hash expires, which the defaults satisfy with a large margin (50 charges at
30 s are 25 minutes, the hash lives 24 hours).

### Placing

One tab of one viewer, two FIFO connections (the socket, and the gateway's command connection to
Redis) with an asynchronous handler between them. `Tap` paints and queues an op; `Receive` takes
the next frame: the welcome of a renewed connection resends everything pending, `Settle` is a
verdict (without a `cid` it rolls back the oldest op), `Show` a snapshot or a delta with the
repaint that follows it. All taps are on one cell, which others write too (`OthersWrite`, on it or
off it); `shown` is who painted what the board shows there, `prev` the revert target of each pending
op, `log` who made each write, from which the colour of the canvas follows. `Flush` sends what was
written since the last flush, at any time relative to the verdicts. `smudged` and `overlapped` record
the two situations in which a revert target is wrong. `Handle` is `handlePlace` up to the script
call, with its four ways out: to the script, refused by the rate limit (no `cid`), refused for
unresolved dimensions (with `cid`), or waiting for `forceResolve` while later messages go on.
`Verdict` and `Effect` are `place.lua` in its order: freeze and ban (open at each call: a moderator
may change either between any two), gauge, claim, write.
`ExecuteFails` is a rejected call, whose script may have run. After `Drop` calls still run but
their answers go nowhere. `strays` counts what breaks the order the client relies on; the
properties that the code's comments derive from that order are stated for `strays = 0`. Messages
other than placements, and the error that precedes a failed initial state, are left out; a
rate-limit refusal of one of them has the same effect on the tab as the modelled one. The time
argument of the script is taken at its execution instead of its issue, and the Redis clock that
expires claims is the gateway's.

### Worker

One canvas, one worker process, its drain of a batch in one step (`DrainOnce`; `Drain` opens it
up). `Boot` leads to the rebuild phase when the slug is listed: `CheckMarker` (a failed read of the marker
counts as none), `Page` by page,
`Guard` (2b, which compares what the replay paints with the live grid), `Overwrite`, `Record`
(the snapshot) and `Mark`; `RebuildFails` stops at any call, and the boot retries
`MaxAttempts` times. `Load` opens the ticking phase. `Trigger` is `DrainCoalescer.trigger`: it
starts a run or joins the one queued behind the current run; `EndRun` resolves the promises.
`Shutdown` stops the timer and waits a bounded time; `Exit` may come before the run has ended.
`Correct` is the operator who deletes durable rows before a rebuild, the reason it exists.
`buried` remembers pixels accepted but not durable when the replay read the log, `recorded`
whether the overwritten grid has a snapshot.

### Geometry

One canvas on grids of at most two by two. `layout` is the stride the bytes really have, which no
code can ask for. `UpdateCanvasConfig` is the Convex transaction with its cut of rows and count;
`posts` are the scheduled actions, delivered in any order or lost (`LosePost`).
`StartResize` runs `grid-resize.lua` with the stride the gateway believes in, `FinishResize` is the
code after the await. `Fetching`, `FetchReads` and `FetchReturns` are the single in-flight query
of `CanvasDimsCache` with its generation check; `Connect`, `Place`, `PlaceOutside` (the
`forceResolve` detour) read through it. `Tick` takes a snapshot, `Restored` is what a cold start
would make of it. `races` collects by name what happened of the things the code does not guard
against: a lost post, a script run with the wrong old stride or overtaken by another, a pixel
healed before the relayout, a join that finishes with old dimensions, a snapshot in the gap. The
properties are stated until the first of them.

### Moderation

One canvas; `writes` is the bitmap's history, `durable` the prefix Convex has. `Prepare*` are
the transactions, `StartRewrite` and `Dispatch` the two ends of `runCellRewrite` around the flush
(which is only a nudge: `Drain` may or may not run) and the post, which may fail before or
after it took effect; `Finalize` stamps the overlay rows. A preview lists at most `PreviewMax`
cells (`FirstPlans`) and counts all. The owner and a delegate, who may be
dropped by a Twitch sync between two steps of an action, act at once. `PostUnban` and `PostFreeze`
are the gate routes; `SetPlacementOpen` the durable switch.

### Ownership, TwitchLive, Erasure

Mutations are atomic; scheduled functions and Helix calls happen later, in any order, or fail. A
slug is a login, the `-canvas` suffix and a number. The cron's poll is three steps: read the
owners, ask Helix, apply. `deleteMyAccount` is one step per call (`Steps` is its order), may
die between any two of them (`ErasureDies`) and is started again only by the user. Traffic runs
against it: the user's open connection places, the worker drains a stream late, a moderator acts on
the user's pixels, a poll applies what it read before, a canvas is created. `races` names what
the saga does not wait for, and two things a retry does not mend, although "a crash mid-purge leaves
a connectable account whose next call converges to the same empty state" (account.ts:8). `forgotten`:
a user's first placement on a canvas that is drained after the references were collected gives no
member canvas, and its row is anonymised with the canvas kept in the action's memory only
(`extraCanvasIds`, account.ts:401); when the action dies there, neither a count nor a row leads the
next call to the user's keys on it. `dropped`: an owner's first sweep empties the stream and the
counter of the owned canvas; when the action dies before the cascade, the counter starts again under
the durable rows, and `UNAUTH_applyFlush` takes the placements that follow for redelivered ones: they
leave neither rows nor counts.

### Gestures, NetClient, Posing

`Gestures` turns pointer and key events into the hook the renderer calls; `Posing` conjoins what
the page does in that hook. `NetClient` keeps every socket that may be open, since
`connect()` awaits a ticket and two calls may overlap; `socket` is the last to resolve. In `Posing`
`seen` is what the last render wrote into refs, which the callbacks bound at mount read: `Render`
is a step of its own. `Facts`/`PlaceState` are `derivePlaceState`; `Apply`, `Take`, `Capacity` the
batch; `OpenInspect` issues a lookup whose token later lookups void; `Validate` sends the batch and
leaves its 300 ms timer (`FlashEnds`). Space sets two flags, the page's `painting` and the renderer's
`spaceHeld`, each with listeners of its own: a repeat is heard by whatever has the focus
(`SpaceRepeats`), a keyup by the renderer only while the canvas has it, a blur by the page alone. `Flips` is the confirmation of the JWT: the auth flip
together with the effect that takes up the saved trip.

### Studio and Tab

A React component is its `id`: the mount that an answer must still find. `docs` is what the last
render's queries gave, so that `Elsewhere` (another tab, a moderator, players) and the calls of
`dispatched` change `rows` before the tab shows it; a call is served, or fails before or after its
durable part, and settles later. `form` keeps its fields whatever canvas `docs.active` comes to name,
`desk` lives while that canvas is frozen, and `crisis` is the dashboard's share of the console
(the mode and the selector's first corner). The marquee's arithmetic (`RectCells`, `RectOutline`,
`WipeIsLarge`) is compared over all corners of small boards in the assumption `MarqueeAgrees`.
What is painted past the smallest frame is `streamed` when it was accepted and `drained` once it is in
`placements` (`Drains`): `ServeSave` counts and purges the latter only, as `updateCanvasConfig` does.
`agreed` and `cropped` record the crops that were confirmed and those of drained pixels that were carried
out. `Tab` puts the two pages in one specification; a behaviour keeps to one of them, and the other is
not mounted. Its history variable `strayed` says that the focus has left the canvas, or the window has lost
it, since the renderer heard Space: `InputIsWhatWasDone` excepts just that from "the renderer's flag is
set only while Space is down".

### Wire, Keys, Rules

Pure definitions without state, each of which two services or more must agree on. They are extended by
the MC modules of the component that relies on them, whose assumptions compare them with an
independent definition over bounded inputs, so that TLC evaluates them at the start of the run:

- `Wire` in `MCFanout`: a frame that is decoded is the frame that was encoded (`FramesSurvive`) as
  long as its counts fit their fields (`BatchesWrap` shows what happens beyond); the board shows the newest
  write of every batch that is not stale, and its drawn image is never behind its colours
  (`BoardFollowsBatches`, `ResizeKeepsCells`); every verdict on a placement finds the placement
  controller (`VerdictsReachTheController`); the gallery's grid is the board of a page that saw the same
  writes, and a preview averages every cell once (`GalleryShowsTheBoard`, `ThumbnailsShowEveryCell`).
  A byte has three values there, so that the two-byte fields wrap at nine;
- `Keys` in `MCErasure`: no two things share a name, a purge sweeps what is the viewer's and nothing
  else, scripts read in each position what their callers put there. A name is the sequence of its
  parts: canvas and user ids contain no colon, an op id, which the client chooses, may;
- `Rules` in `MCCharges`: the closed form of the tiers against the sum of their costs, claims in any order,
  the peeked countdown against the refill itself, the day of an opening against a calendar whose days
  are a unit longer or shorter, the bucket against the total it may let through. `GalleryOnlyAdvances`
  follows the worker's writes of a canvas row in every order, with the blobs they store and free;
  `FeedIsTheMostActive`, `PanelNamesThePainter` and `ContractFollowsTheCaller` are about what the queries
  answer. A second is 2 units, a day 6.

## 3. What the runs check

| Run | Instance | Shows |
|---|---|---|
| `drain` | 2 workers, 1 user, 1 cell with 2 colours, 3 writes in batches of 2, moderations of 2 cells, 2 faults | the safety properties of the drain and the refinement of `PlacementLog` |
| `worker` | 1 cell with 2 colours, 2 writes, 2 faults, 1 flush request, batches and pages of 1, 2 rounds; without a rebuild, with a guarded one after a correction, with a forced one | triggers, rebuild, restore, liveness |
| `recovery` | 2 workers, 2 cells, 3 writes, retention 1, pages of 1; careful with a wipe and a fault, or free with a rollback | a loss at rest is recovered completely; refinement of `Drain` |
| `fanout` | 1 page, 2 cells, ring of 2, 2 writes, 2 connections, 2 faults, calm or not | no orphan state, reloads heal, calm viewers see exactly the canvas and keep up |
| `charges` | 2 sessions, base 1, cap 2, a charge every 2 units, expiry 6, clock to 6 | the economy |
| `placing` | 2 ops on a cell, 2 connections, 1 fault or write of another viewer, 2 charges, claims of 1 unit, clock to 1 | taps, verdicts, colours |
| `moderation` | 2 viewers, owner and a delegate, 2 cells, previews of 1, up to 3 placements and 3 actions, 1 fault, in four mixes of actions | recorded is removed, restored once, previews agree |
| `geometry` | sides 1 and 2, 1 connection, 2 writes and a resize or a write and 2 resizes with a clock and a fault | everyone agrees on the stride |
| `erasure` | 2 users, 4 canvases, batches of 1, from an empty or a peopled database, seven budgets of events | links, erasure, other people's pixels |
| `posing` | 2 cells (one painted), 2 pointers, 3 sockets, 1 charge, 2 tiers, eight budgets of events; 2 canvases of sides 1 or 2, open or frozen, painted outside the small frame or to be, six budgets | the canvas page, the studio |
| `erasure_late` | 1 user, a canvas created after the boot | a disagreement, below |
| `placing_phantom` | 1 op, 1 connection, 1 write of another viewer | a disagreement, below |

Why these bounds are enough to be worth something. Two is the number of actors in every race the
code has: two workers under one lock, two sessions of one viewer, two ops in flight, two
moderators, two pointers, two sockets of which one is stale. The write counts exceed the batch,
page and ring sizes, so those limits are crossed. A single fault suffices for each scenario of the
hazards; two allow a fault during the recovery from another. The clock of `charges` reaches the
expiry of a gauge after several refill intervals; the one of `placing` past the expiry of a claim.
The stream cap is off in the run (the refinement needs it off); the theorem `NothingLost` covers
any cap.

Where every event of a component together is too much (the page, the erasure, the moderation, the
worker, the geometry), a constant lists budgets: each behaviour picks one of them, and it bounds
how often each kind of event occurs. Events outside a budget do not occur in that behaviour, so
a combination that no budget lists is not explored. Two runs have a CONSTRAINT:
`OlderFileWhenFree` keeps the free behaviours of `recovery` to a Redis that comes back from an
older file, with two writes and no other fault; `UntilARace` stops `geometry` at the first
unguarded race, after which its properties say nothing.

Deadlock is checked in `drain`, `worker` and `recovery`. It is off in the others, whose
clocks, connections and budgets of events run out: the bounded instance then stops where the system
would go on.

Fairness. `FairWorkSpec` assumes that boots, phases, timers and awaited calls of the worker go on,
that the process is restarted when it died (the container's restart policy) and that a lock left
behind expires (Redis' TTL); faults are finite. `Fanout` assumes that
queues are served, commands executed, timers fire and a lost subscriber connection is resumed
(ioredis); nobody has to connect. `Placing` assumes that
queues are served and that `forceResolve` and script calls settle; nobody has to tap or reconnect. `Erasure`'s `FairSpec` assumes that an action that is not killed makes its next
call, that a worker ticks over the canvases in its map and that the cron goes on. `Posing`'s assumes
that renders, ticket fetches, backoff timers and handshakes happen; no user has to do anything
(`FairTab` states the same of the tab).

### Disagreements between the code and what it says

- `erasure_late`: the worker loads its map of canvases once, at boot, and subscribes to flush
  requests for these only. A canvas created afterwards, by a first sign-in for example, is drained by
  no tick until the worker restarts, although "one tick iterates all active canvases"
  (worker index.ts:14): its placements live in Redis alone, snapshots are not taken, and the
  moderation and deletion that wait for a flush work without them.
- `placing_phantom`: the page repaints its pending pixels after every binary frame
  (CanvasView.tsx:845), not only after a snapshot (features/canvas/README.md:54). After a delta that
  leaves the cell alone, the board still holds the op's own paint, which becomes its revert target:
  the refusal that follows changes nothing, and the viewer keeps seeing a pixel that was refused.

Others that the models contain and no run states:

- after a loss of Redis a placement may arrive before a worker has restored the canvas; the counter
  then starts again at 1 and `applyFlush` takes the write for a redelivery (persistence-worker.md:34
  promises "exactly-once durable" for a global monotonic `version`). `careful` excludes it;
- the first viewer's initial snapshot can be read before Redis executes the SUBSCRIBE, and a write in
  between reaches the viewer by neither way, without any disconnect (docs/adr/0003-ws-gateway-topology.md:73).
  `calm` excludes it;
- the gauge is tested before the op claim: a resent op whose first copy took the last charge is
  answered with a cooldown instead of "the prior ok" (place.lua:148), and the tab takes back a pixel
  that is on the canvas;
- the ack of a replay keeps the pixel of an op that was written on an earlier connection and has been
  overwritten since; and with two pending ops on one cell, the refusal of the first does not reach
  the revert target of the second, so that refusing both leaves the first one's paint
  (`BoardShowsCanvas` excepts both);
- `RestoredBatchSurvives` (`Tab`): the batch saved before the trip to Twitch is taken up when
  the JWT is confirmed, at a time when no gauge frame can have arrived; `BatchSelection.apply` drops
  every cell because the capacity is zero, and the saved copy is already cleared (return-trip.ts:7
  says the work "isn't lost");
- `BanReachesTheGate` (`ModerationProps`): a ban is never posted to `/internal/ban`, only its lifting is;
- `HealedPixelsStayInPlace` (`Geometry`): a pixel placed between the durable resize and the
  relayout is written in the new stride into bytes of the old one, and moved by the relayout;
- `SignedOutIsAnonymous` (`Tab`): a ticket asked for before the sign-out still opens the
  player's socket;
- `PaintStopsAtRelease` (`Tab`): Space on the canvas outside draw mode enters it and takes the focus to the
  panel, so that the renderer does not hear the keyup; back on the canvas the arrow keys stage cells with
  Space up (renderer.ts:1065), although "continuous-paint stops at release" (renderer.ts:1032);
- `AsksBeforeAnyCrop` (`Tab`): the warning before a shrink counts rows of `placements` (canvases.ts:343); a
  pixel that was accepted and has not drained is cut without a question, although one is promised "if
  shrinking would discard K>0 painted pixels" (canvases.ts:305);
- `DialogIsOfCanvas` (`Tab`): the console is not keyed by its canvas (StudioDashboardBody.tsx:699), so that after
  a reactivation by another tab a wipe outlined, a target picked or a row chosen on one frozen canvas is sent
  to the other (CrisisController.tsx:142, 164, 187), although what is confirmed is what was outlined
  (CrisisController.tsx:13); a restore sent so finds nothing, and its row reads "Restauré";
- `FormIsOfCanvas` (`Tab`): the settings form is not keyed by its canvas, so that after a
  reactivation the save button appears without any unsaved change of the user
  (StudioDashboardBody.tsx:5) and writes the previous canvas's name, size and visibility to the new one;
- in the console, an answer that comes after the dialog was left and another target picked closes the
  new dialog; a restore refused by the gateway has marked its rows, a second one finds nothing to do,
  counts as done, and the row reads "Restauré" without any post;
- a return of Redis from an append-only file older than the last flush leaves the live canvas behind
  the durable log for good; on a reconnect a replay overtaken by the older initial snapshot takes the
  board back; a failed claim dispatch takes effect on the next connection, not on the next placement
  (points.ts:252); a bonus answer that arrives late lowers a ceiling that was paid for; a resend
  later than `opTtlMs` is written twice; a restore whose dispatch fails cannot be repeated;
- a preview uploaded for a version that the row already has is refused by the row and stays in the
  storage, where "exactly one preview" is kept (lib/gallery.ts:171).

## 4. What is proved

All theorems hold for every value of the constants that the named assumptions allow: any number
of workers, cells, users, writes, sessions, any refill interval and amount.

**Drain** (first half of `RecoveryProofs`). None of the four safety properties is inductive: that nothing is
skipped depends on batches in flight and on late requests. `DrainInv` adds the numbering (the
n-th accepted write has version n, the stream is an increasing sequence of them) and "no hole
below": a batch in flight, an orphan and a cursor refer only to writes below which everything is
durable or still ahead in the same batch. `DrainInductive` proves it step by step;
`NothingLost`, `NothingSkipped`, `NoHoles` and `CreditedOnce` follow, and `DrainImplementsLog`
shows every step of the drain to be a step of `PlacementLog` or a stutter when the cap is off.
`CountIsExact` is about `applyFlush`'s transition counting: row by row, it asks what was newest on the cell
before, and adds one, takes one off or does nothing. A flush without a hole below inserts above every durable
row, so the newest before a row is the row below it in the batch or the durable top (`NewestDecides`,
`PrevIsShown`), the count moves with the set of visible cells row for row (`NextRowAdds`), and it is never
floored at zero. The argument over the batch is by a minimal counterexample among its versions
(`FlushAddsUp`). The hypothesis `KeepsUp` says that what the cap may evict is already durable. Without it the count may
drift: a write evicted while an abandoned flush still holds it can be committed under rows that were
counted without it. `CountIsExactUncapped` needs no hypothesis.

**Recovery** (second half of `RecoveryProofs`). `RecoveryImplementsDrain`: until the first loss of Redis, every
step of the worker with snapshots and restores is a step of `Drain` or leaves its variables
alone. The argument (`LiveBeforeFrames`): a restore has something to write
only after some snapshot, a snapshot is taken only of a canvas that has a version, and a canvas
keeps its version while Redis loses nothing; so the guard of the restore's script refuses.

After a loss that argument is gone: versions are counted again from what a restore brought
back. What holds under `careful` (section 2, Recovery) is proved for any number of losses, workers,
snapshots and pages: `VersionsAreFresh` (no version stands for two writes that may both reach
Convex), `ConvexRebuilds` (the last snapshot and the placements after it give a canvas that is behind no
durable row) and `RestoreMissesNothing` (what a restore is about to write covers every durable row). They rest
on one inductive invariant, `CarefulInductive`: over what is durable or may still become so
the versions follow the ids (`Ordered`); a canvas that awaits no restore is ahead of all of it
(`LiveFollows`); the last snapshot, a frame being uploaded and a late upload show every such write up to
their version (`FramesSound`); with Redis empty nothing is on its way to Convex
(`BareIsQuiet`); a restore has read every page up to its cursor (`TailFollows`). The
lemmas are about the operators: the head version of a replay is the greatest of its rows, a
compaction keeps each cell's newest row and what the oldest kept snapshot does not cover, a page
extends what was read without a gap.

**Fanout** (first part of `GatewayProofs`). `EntrySubscribed`: the state the gateway keeps for a canvas is
always subscribed or about to be, whoever leaves and joins between the awaits of both.
`FanoutImplementsMirror`: in a calm behaviour each step of the script, the channel, the gateway
and the pages is a step of `CanvasMirror` or a stutter: no settled page shows anything but the
canvas as of some write, or goes back. Of a calm behaviour the inductive invariant
(`FanoutIsInductive`) says that each link of the chain hands on what the one before it gave: the
channel carries the writes without a hole (`Unbroken`), the ring holds the last of them
(`RingFollows`), a snapshot read is as of the last write (`ReadsCurrent`), the coalescer's batch
continues what every greeted viewer has been sent (`BatchFollows`), and each frame on a socket
what its viewer will show by then (`ViewerFollows`).

**Charges** (second part of `GatewayProofs`). `Budget` is an accounting argument: a refill moves its clock by as
many intervals as it pays, and a gauge filled by expiry has been idle long enough to have earned
it; it needs `Aged` (a stored gauge's expiry lies a full time to live after its clock) and the
facts about integer division proved as lemmas. `Ceilings` needs that the answer of a query in flight is not
above the bonus (`AnswersHold`). `Progression`, `OneGauge` and `HonestCooldown` follow from the
same invariant and the arithmetic of `Refilled`. `OneChargeATier` speaks of a sum over the posts and jobs
under way, which the model takes as a fold (`MapThenSumSet`). A fold is a recursive function on sets whose
existence has to be proved before its equation may be used: `SumsExist` builds it up to every size by
a minimal counterexample, `SumsAgree` shows that two of them agree where both are defined, and
`SumAdd`, `SumRemove` and `SumKept` are what the steps need of it: a charge moves from the bonus to a
post, to a job, to the gauge, and what is lost on the way only lowers the sum.

**Wire and Rules** (last part of `GatewayProofs`). What the MC modules compare over small inputs, for
every size. `TiersAreWhatPointsPay` takes the first tier whose successor is not paid for, gives the climb of
`tiersEarned` that ends there, because a recursive function has to be shown to exist before its equation
may be used, and shows by a minimal counterexample that every climb ends there; that the thresholds
grow (`ThresholdsGrow`) makes it their inverse.
`ClaimsInAnyOrder` and `BucketLimitsEveryStretch` speak of runs of any length: a run is given by what
it starts from and how each step follows from the one before (`ClaimRun`, `MessageRun`), and the first
step that broke the bound contradicts what one step does (`ClaimRaises`, `BucketStep`).
`DeltasSurvive` takes the frame apart into its header and equal records (`ThreeParts`, `PutBytes`), each
number being the quotient and the remainder its bytes hold (`TwoBytes`, `FourBytes`); its count is taken
modulo two bytes, which states what the page reads of a batch that is too long; `SnapshotsSurvive` does the
same for a board. Bytes have any width there. `BoardFollowsBatches` follows a batch write by write: the boards
in between are shown to exist (`BatchRuns`), one write changes its cell only (`WriteSets`), which rests on
no two cells having the same index (`CellsAreIndices`), as does `ResizeKeepsCells`. `TiersCostTheirUpgrades` and
`ArmingFollowsTheGauge` are proved there too: the ladder of upgrades, and what the page lets arm.

**Moderation** (`ModerationProofs`). A moderation action spans several awaits, so its properties
compare what two steps of it read, with everybody else in between. `ModInductive` says what each
step leaves for the next: an actor past its prepare owns a journal entry of its kind
(`EntriesOwned`); until the dispatch the entry is open and no write is its (`Undispatched`); the batch is
exactly the rows of the entry, or the rows a restore has marked (`BatchFits`); every row records the version on
top of its cell in the log it was decided from and, once the entry is answered, an overwrite of that cell
behind that log (`RowFits`); every write of an action is for one of its rows (`WriteFits`), once
per cell (`WrittenOnce`); a wipe has a row for all its target showed (`WipeSees`). `WipesLeaveNothing` then is a
contradiction: a pixel still showing from that log has a row, and its cell was written later. `RestoresAreSingle`
follows from one row per cell (`OneRowEach`), marked by one restore. `StepsAreOfAKind` reduces the 24
actions to seven kinds of steps, as the gates and Twitch's list play no part; `RowMajorOrders` shows
that a batch has a row-major order, by the rank of a cell. `PreviewsMatchActions` needs only the types.

**Placing** (`PlacingProofs`). `PlacingInv` follows an op along its way. `WrittenOnce` needs
`Claimed`: a claim is made in the step of the write, after the tap, so it outlives the tap by
`opTtlMs`. The fate of an op (`RevertedMeansUnplaced`) needs that an op sent once has one
message underway and none after its answer (`SentOnce`), that what an answer says is so and stays so
(`AnswersAreTrue`), and that a refusal without an id rolls back the op it is about, because verdicts arrive
in the order of the taps (`Orderly`) unless the rate limit or `forceResolve` broke it (`strays`). The colour
(`BoardShowsCanvas`) needs that welcome and snapshot travel together (`Handshake`), that from there on the
deltas leave no gap (`DeltasJoin`), that the ack of an op precedes any frame that shows its write
(`AcksComeFirst`: a commit is never undone by an older frame), and that what is under the pending pixel was on
the canvas no longer ago than what the board has applied (`BoardIsSound`). `NextIsStepped` first restates every
action entry by entry (`Pushes`, `Pops`), in which form the provers can reason about queues. The one assumption
on the ids is that no op id is one of the model's four marks (`"other"`, `"none"`, ...).

**Worker** (`WorkerProofs`). `WorkerInv` rests on `Numbered`: a rebuild never moves the counter,
as no row is ahead of it, so version and position in the log agree and `Newest` is the greatest index
(`NewestIsGreatest`, by a well-founded order, as no maximum of a set of naturals is in the library).
`AnswersAreLate` needs that a batch and the triggers behind it are disjoint and waiting, and that a run
that reached the end of the stream covers its batch (`Coalesced`). `RebuildIsReplay` needs what
a replay has read so far (`Replaying`: exactly the durable rows up to its cursor, which is `PageIsPrefix`,
a comparison of cardinalities) and that the rows are the drained log less the corrections (`Durable`).
`NoWipe` carries the verdict of the guard over the placements between it and the overwrite (`Guarded`).
`RestoreIsLive` needs that the live grid is the snapshot under the writes after it (`Snapped`) with every
correction below the snapshot. `NextIsStepped` merges the actions that leave the grid, the log and the
triggers alone.

**Erasure** (`ErasureProofs`). The proof follows a deletion through its steps: `Past(S, u)` says that u's deletion is past the
step before the set S, or over, and each part of `ErasureInv` says what has gone by then: the canvases
(`Owned`, which needs that a deletion knew all of them), the names on bans, moderators, overlays and the
audit (`Unmarked`), the badge and the polls that could bring it back (`Badge`), the attribution, the
stream, the counts and the rows (`Purged`: the rows cannot come back since the stream was empty when the
last count went). `Swept` is the key argument: a key of u stands for an undrained entry, a row, or a canvas
the second sweep comes to, so that when neither entry nor row is left the second sweep takes the last key.
`PastMoves` and `CrossingIs` reduce the twenty-four steps to the one that brings a deletion past a set.
`LinksLead` rests on the pigeonhole principle: one of the first `Len(canvases) + 1` numbers is free, so
`uniqueSlug` ends (`UniqueSlugIsFree`). The attempt to prove `ErasedLeavesNoTrace` as it was first stated failed on
`forgotten` and `dropped`, and TLC then showed both on a larger instance.

**Geometry** (`GeometryProofs`). While a resize is under way cache, bytes, rows and clients disagree, so the
three properties, which speak of settled states, are far from inductive. `CleanInv` says what holds in between, as long
as no named race has occurred. `InTurn`: the posts are numbered, the last one carries the durable dims, the bytes are
in the dims of the last that ran, and the resize whose reply is awaited is older than every post. `Follows`: with none
under way the gateway agrees with Convex, and an answer that is still on its way and differs is older than the cached
dims, so `_fetch` refuses it. `DueIsLogged`: what a cell will show once the posts have run (`Due`: its byte if every
frame still to come has it, blank otherwise) is what the log says of it; `StraysKnown`: the log has nothing outside the
durable frame but strays. `OutIsCut` and `SnapFollows` carry the same over the latest snapshot: a cell outside the
bytes' frame was cut since it or is blank in it, and a cell not written nor cut since shows the log. The step lemmas go by
what an action does to the log: a write (`WriteKeepsLog`), a drain, a decision (`UpdateKeepsLog`), a relayout
(`RelayoutKeepsLog`, on `RelayoutShows` and the arithmetic of offsets: row-major offsets differ inside a frame),
a snapshot. `CountIsExact` needs no discipline: `cellCount`, which a flush moves by one and a resize recounts, is the
number of painted cells in every state.

**Tab** (`TabProofs`). `TabInv` has a part for each page. `OnePress`: a press that may still become a tap has
fired nothing, a second finger ends that for good, and the long-press timer runs only for a first finger that
has not moved; so what a press fires is in a list of five. `CurrentIsShown`: a lookup whose token is current asks
for the pixel that the panel shows, so that its answer may be shown, and every other answer is dropped.
`HeldOrStrayed`: the renderer's flag survives a keyup only when the focus is elsewhere, and a blur of the window.
`CropsAsAskedAndOneRemoval` is about calls that outlive the component that made them: each call is signed by
a component that was mounted before (`CallInv`), so that a console that mounts has none on its way;
a console with a removal under way waits for it (`OneRemoval`); and a confirmed save, in the dialog or on
its way, was confirmed for its canvas and size. The three theorems on the marquee carry to
every board and all corners what the assumption `MarqueeAgrees` checks on boards of three cells: the cells of a wipe
are the product of two clamped spans, whose sizes multiply, and whose border is the outline.

Only model-checked: liveness (`DrainsForever`, `Heals`, `EventuallyCurrent`, `EveryTapSettles`,
`ErasureEnds`, `SignedInGetsIdentity`), which is out of the prover's reach; and of the operators of `Wire`, `Keys` and
`Rules` those that are not named under **Wire and Rules** above (routing, names, script arguments,
windows, the gallery's pictures), which the assumptions of the MC modules compare with
references over small inputs.

## 5. What is not modelled

Drawing, zoom arithmetic, sounds, labels and styling of
the page; the gallery, landing and profile pages, which render queries;
tokens and signatures; the encoding of the preview; the load tools; deployment beyond
Redis' persistence settings. These are rendering, I/O or single transactions whose properties
are not about interleavings. Of the modelled parts: viewer
counts and heartbeats; several gateway processes (each has its own subscription and cache, and the
claims and gauges they share are in Redis, where one script is one step).

## 6. What could come next

1. Proofs about the operators of `Wire`, `Keys` and `Rules` that are only compared so far: the
   thumbnail's partition, the gallery's grid, the names.
2. `GatewayFollowsConvex` with two gateway processes, one of which misses the post.
