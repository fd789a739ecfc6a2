------------------------------- MODULE Drain --------------------------------
(***************************************************************************)
(* The durability path of one canvas, from the atomic hot-path scripts to  *)
(* the durable placement log:                                              *)
(*                                                                         *)
(*   place.lua / moderate.lua --XADD--> Redis stream --drain--> applyFlush *)
(*                                                                         *)
(* Any number of worker processes drain the stream under a best-effort     *)
(* lock whose TTL may run out under a live holder.  Workers crash and      *)
(* restart, any awaited call may fail, and an applyFlush request whose     *)
(* sender gave up may be lost or may still commit, at any later moment.    *)
(* Redis itself does not lose data here: that is module Recovery.          *)
(*                                                                         *)
(* A stream id is a strictly increasing number (Redis derives it from its  *)
(* clock); it also serves as the identity of a write.  A byte of the       *)
(* bitmap is represented by the id of the write that last set it.          *)
(***************************************************************************)
EXTENDS Integers, FiniteSets

CONSTANTS
  Users,         \* signed-in placers
  NoUser,        \* the empty userId of a moderation overwrite
  Cells,         \* the cells of the grid
  Colors,        \* palette indexes; 0 is the empty cell
  Workers,       \* worker processes
  NoWorker,      \* the absent lock key
  MaxBatch,      \* FLUSH_MAX_BATCH, the COUNT of XREAD
  StreamMaxLen,  \* STREAM_MAXLEN of place.lua's XADD; 0 disables the cap
  MaxModCells,   \* bound: cells of one moderation action
  MaxWrites,     \* bound: accepted writes
  MaxFaults      \* bound: worker crashes and failed calls

ASSUME DrainAssumption ==
  /\ NoUser \notin Users
  /\ NoWorker \notin Workers
  /\ 0 \in Colors /\ Colors \subseteq Nat
  /\ MaxBatch \in Nat \ {0}
  /\ StreamMaxLen \in Nat
  /\ MaxModCells \in Nat /\ MaxWrites \in Nat /\ MaxFaults \in Nat

VARIABLES
  meta,        \* Redis canvas:{id}:meta, the version counter; 0 when absent
  pixels,      \* Redis canvas:{id}:pixels
  stream,      \* Redis canvas:{id}:stream, its entries
  lock,        \* Redis lock:flush:{id}
  clock,       \* the last stream id Redis generated
  canvasRow,   \* the F2 canvases row of the slug exists
  placements,  \* Convex placements rows
  flushState,  \* Convex flushState row
  points,      \* Convex userCanvasStats.points
  cellCount,   \* Convex canvases.cellCount
  pc,          \* where each worker is
  cursor,      \* PerCanvasRuntime.cursor of each worker
  batch,       \* the batch of the drain cycle each worker is in
  orphans,     \* applyFlush requests in flight that nobody awaits any more
  faults,      \* crashes and failed calls so far
  written      \* every write ever accepted (history)

redisVars  == <<meta, pixels, stream, clock, written>>
convexVars == <<placements, flushState, points, cellCount>>
workerVars == <<pc, cursor, batch>>
drainVars  == <<redisVars, lock, canvasRow, convexVars, workerVars, orphans, faults>>

Write == [id: Nat, version: Nat, cell: Cells, color: Colors, user: Users \cup {NoUser}]

Ids(entries) == {e.id : e \in entries}
By(u, writes) == {e \in writes : e.user = u}
Latest(S) == CHOOSE i \in S : \A j \in S : j <= i

DrainInit ==
  /\ meta = 0 /\ clock = 0
  /\ pixels = [c \in Cells |-> 0]
  /\ stream = {} /\ written = {}
  /\ lock = NoWorker
  /\ canvasRow \in BOOLEAN
  /\ placements = {}
  /\ flushState = [lastStreamId |-> 0, lastFlushedVersion |-> 0]
  /\ points = [u \in Users |-> 0]
  /\ cellCount = 0
  /\ pc = [w \in Workers |-> "down"]
  /\ cursor = [w \in Workers |-> 0]
  /\ batch = [w \in Workers |-> {}]
  /\ orphans = {}
  /\ faults = 0
-----------------------------------------------------------------------------
(***************************************************************************)
(* The producers: one atomic Lua script each.                              *)
(***************************************************************************)

\* The entries XADD MAXLEN ~ may leave: all of them, or at least the newest
\* StreamMaxLen (the trim is approximate and may keep more than the cap).
Capped(entries) ==
  {entries} \cup
  {kept \in {{e \in entries : e.id >= k} : k \in Ids(entries)} :
     StreamMaxLen > 0 /\ Cardinality(Ids(kept)) >= StreamMaxLen}

\* place.lua once it has decided to accept: version, bitmap byte, stream entry.
Place(u, c, color) ==
  LET e == [id |-> clock + 1, version |-> meta + 1, cell |-> c, color |-> color, user |-> u]
  IN  /\ clock < MaxWrites
      /\ meta' = meta + 1
      /\ clock' = clock + 1
      /\ pixels' = [pixels EXCEPT ![c] = clock + 1]
      /\ stream' \in Capped(stream \cup {e})
      /\ written' = written \cup {e}
      /\ UNCHANGED <<lock, canvasRow, convexVars, workerVars, orphans, faults>>

\* moderate.lua: n overwrites in one script, a version and an entry for each, no cap.
Moderate(n, target, color) ==
  LET es == {[id |-> clock + i, version |-> meta + i, cell |-> target[i],
              color |-> color[i], user |-> NoUser] : i \in 1..n}
  IN  /\ clock + n <= MaxWrites
      /\ meta' = meta + n
      /\ clock' = clock + n
      /\ pixels' = [c \in Cells |->
           IF \E i \in 1..n : target[i] = c
             THEN clock + Latest({i \in 1..n : target[i] = c}) ELSE pixels[c]]
      /\ stream' = stream \cup es
      /\ written' = written \cup es
      /\ UNCHANGED <<lock, canvasRow, convexVars, workerVars, orphans, faults>>

\* canvases:createCanvas, the only creator of the row a flush needs.
CreateCanvas ==
  /\ ~canvasRow /\ canvasRow' = TRUE
  /\ UNCHANGED <<redisVars, lock, convexVars, workerVars, orphans, faults>>
-----------------------------------------------------------------------------
(***************************************************************************)
(* worker:applyFlush, one Convex transaction.                              *)
(***************************************************************************)

\* (mutated) No duplicate is skipped.
FreshAll(b) == b

\* The rows not skipped as duplicates of a (canvas, version) already inserted.
Fresh(b) ==
  {e \in b : /\ \A p \in placements : p.version # e.version
             /\ \A f \in b : f.version = e.version => e.id <= f.id}

\* (mutated) Earlier rows of the same batch are overlooked.
PrevColorStored(p, rows) ==
  LET before == {q \in placements : q.cell = p.cell /\ q.version < p.version}
  IN  IF before = {} THEN 0
      ELSE (CHOOSE q \in before : \A r \in before : r.version <= q.version).color

\* The colour a cell had just before p, by version, among the given rows.
PrevColor(p, rows) ==
  LET before == {q \in rows : q.cell = p.cell /\ q.version < p.version}
  IN  IF before = {} THEN 0
      ELSE (CHOOSE q \in before : \A r \in before : r.version <= q.version).color

CellDelta(fresh, rows) ==
  Cardinality({p \in fresh : PrevColor(p, rows) = 0 /\ p.color > 0})
  - Cardinality({p \in fresh : PrevColor(p, rows) > 0 /\ p.color = 0})

\* aggregatePlacementCounts and accruePlacementPoints: writes without a user earn nothing.
Accrue(fresh) == [u \in Users |-> points[u] + Cardinality(By(u, fresh))]

AtLeastZero(n) == IF n < 0 THEN 0 ELSE n

NewestVersion(b) == Latest({e.version : e \in b})

\* (mutated) Every row of the batch is credited, not only the inserted ones.
ApplyFlushCreditAll(b) ==
  IF canvasRow
    THEN LET rows == placements \cup Fresh(b)
         IN  /\ placements' = rows
             /\ points' = Accrue(b)
             /\ flushState' =
                  [lastStreamId |-> Latest(Ids(b)),
                   lastFlushedVersion |->
                     Latest({flushState.lastFlushedVersion, NewestVersion(b)})]
             /\ cellCount' = AtLeastZero(cellCount + CellDelta(Fresh(b), rows))
    ELSE UNCHANGED convexVars

ApplyFlush(b) ==
  IF canvasRow
    THEN LET rows == placements \cup Fresh(b)
         IN  /\ placements' = rows
             /\ points' = Accrue(Fresh(b))
             /\ flushState' =
                  [lastStreamId |-> Latest(Ids(b)),
                   lastFlushedVersion |->
                     Latest({flushState.lastFlushedVersion, NewestVersion(b)})]
             /\ cellCount' = AtLeastZero(cellCount + CellDelta(Fresh(b), rows))
    ELSE UNCHANGED convexVars
-----------------------------------------------------------------------------
(***************************************************************************)
(* A worker process.                                                       *)
(***************************************************************************)

\* withLock's finally: a check-and-del, so only one's own lock is freed.
Release(w) == lock' = IF lock = w THEN NoWorker ELSE lock

\* loadCanvasMap: resume from the durable cursor, or from "0" if it cannot be read.
Boot(w) ==
  /\ pc[w] = "down"
  /\ pc' = [pc EXCEPT ![w] = "idle"]
  /\ \E c \in {flushState.lastStreamId, 0} : cursor' = [cursor EXCEPT ![w] = c]
  /\ UNCHANGED <<redisVars, lock, canvasRow, convexVars, batch, orphans, faults>>

\* A tick that gets the lock; one that does not is skipped.
StartTick(w) ==
  /\ pc[w] = "idle" /\ lock = NoWorker
  /\ lock' = w
  /\ pc' = [pc EXCEPT ![w] = "drain"]
  /\ UNCHANGED <<redisVars, canvasRow, convexVars, cursor, batch, orphans, faults>>

\* The lock's TTL runs out, whether its holder is dead or merely slow.
LockExpire ==
  /\ lock # NoWorker /\ lock' = NoWorker
  /\ UNCHANGED <<redisVars, canvasRow, convexVars, workerVars, orphans, faults>>

\* The batches XREAD COUNT may return past a cursor: the first MaxBatch entries.
Reads(c) ==
  LET unread == {e \in stream : e.id > c}
  IN  {b \in {{e \in unread : e.id <= k} : k \in Ids(unread)} :
         \/ Cardinality(b) = MaxBatch
         \/ b = unread /\ Cardinality(b) < MaxBatch}

\* (mutated) The cursor advances before the flush is confirmed.
DrainReadEager(w) ==
  /\ pc[w] = "drain"
  /\ \E b \in Reads(cursor[w]) :
       /\ batch' = [batch EXCEPT ![w] = b]
       /\ cursor' = [cursor EXCEPT ![w] = Latest(Ids(b))]
  /\ pc' = [pc EXCEPT ![w] = "flush"]
  /\ UNCHANGED <<redisVars, lock, canvasRow, convexVars, orphans, faults>>

\* drainOnce up to and including the call of applyFlush.
DrainRead(w) ==
  /\ pc[w] = "drain"
  /\ \E b \in Reads(cursor[w]) : batch' = [batch EXCEPT ![w] = b]
  /\ pc' = [pc EXCEPT ![w] = "flush"]
  /\ UNCHANGED <<redisVars, lock, canvasRow, convexVars, cursor, orphans, faults>>

\* drainOnce on an empty stream: the drain loop of the tick ends.
DrainEmpty(w) ==
  /\ pc[w] = "drain"
  /\ \A e \in stream : e.id <= cursor[w]
  /\ pc' = [pc EXCEPT ![w] = "drained"]
  /\ UNCHANGED <<redisVars, lock, canvasRow, convexVars, cursor, batch, orphans, faults>>

\* (mutated) canvasFound is not looked at.
CommitFlushUnchecked(w) ==
  /\ pc[w] = "flush"
  /\ ApplyFlush(batch[w])
  /\ pc' = [pc EXCEPT ![w] = "flushed"]
  /\ UNCHANGED <<redisVars, lock, canvasRow, cursor, batch, orphans, faults>>

\* applyFlush commits and its answer arrives; without a canvas row the cycle
\* neither trims nor advances, and the loop ends.
CommitFlush(w) ==
  /\ pc[w] = "flush"
  /\ ApplyFlush(batch[w])
  /\ IF canvasRow
       THEN /\ pc' = [pc EXCEPT ![w] = "flushed"]
            /\ UNCHANGED batch
       ELSE /\ pc' = [pc EXCEPT ![w] = "drained"]
            /\ batch' = [batch EXCEPT ![w] = {}]
  /\ UNCHANGED <<redisVars, lock, canvasRow, cursor, orphans, faults>>

\* XTRIM MINID after the confirmed flush, then the cursor.  A short batch ends the
\* loop; after a full one it goes on, unless its guard of 50 rounds is hit.
TrimStream(w) ==
  LET last == Latest(Ids(batch[w]))
      exits == {"drained"} \cup (IF Cardinality(batch[w]) < MaxBatch THEN {} ELSE {"drain"})
  IN  /\ pc[w] = "flushed"
      /\ stream' = {e \in stream : e.id >= last}
      /\ cursor' = [cursor EXCEPT ![w] = last]
      /\ batch' = [batch EXCEPT ![w] = {}]
      /\ \E next \in exits : pc' = [pc EXCEPT ![w] = next]
      /\ UNCHANGED <<meta, pixels, clock, written, lock, canvasRow, convexVars, orphans, faults>>

\* The tick ends and frees the lock if it is still the worker's.
EndTick(w) ==
  /\ pc[w] = "drained"
  /\ pc' = [pc EXCEPT ![w] = "idle"]
  /\ Release(w)
  /\ UNCHANGED <<redisVars, canvasRow, convexVars, cursor, batch, orphans, faults>>

\* What a worker leaves behind when it stops awaiting: a request in flight.
Abandon(w) ==
  /\ faults < MaxFaults /\ faults' = faults + 1
  /\ orphans' = orphans \cup (IF pc[w] = "flush" THEN {batch[w]} ELSE {})
  /\ batch' = [batch EXCEPT ![w] = {}]
  /\ UNCHANGED <<redisVars, canvasRow, convexVars, cursor>>

\* An awaited Redis or Convex call rejects: the tick is given up, cursor unchanged.
TickError(w) ==
  /\ pc[w] \in {"drain", "flush", "flushed", "drained"}
  /\ pc' = [pc EXCEPT ![w] = "idle"]
  /\ Release(w)
  /\ Abandon(w)

\* The process dies, or its shutdown deadline ends it; the lock stays until its TTL.
Crash(w) ==
  /\ pc[w] # "down"
  /\ pc' = [pc EXCEPT ![w] = "down"]
  /\ Abandon(w)
  /\ UNCHANGED lock

\* An abandoned request reaches Convex after all.
CommitOrphan(b) ==
  /\ b \in orphans
  /\ ApplyFlush(b)
  /\ orphans' = orphans \ {b}
  /\ UNCHANGED <<redisVars, lock, canvasRow, workerVars, faults>>
-----------------------------------------------------------------------------
Produce ==
  \/ \E u \in Users, c \in Cells, color \in Colors : Place(u, c, color)
  \/ \E n \in 1..MaxModCells : \E target \in [1..n -> Cells], color \in [1..n -> Colors] :
       Moderate(n, target, color)

Drain(w) == DrainRead(w) \/ DrainEmpty(w) \/ CommitFlush(w) \/ TrimStream(w)

DrainNext ==
  \/ Produce
  \/ CreateCanvas
  \/ LockExpire
  \/ \E w \in Workers :
       Boot(w) \/ StartTick(w) \/ Drain(w) \/ EndTick(w) \/ TickError(w) \/ Crash(w)
  \/ \E b \in orphans : CommitOrphan(b)

DrainSpec == DrainInit /\ [][DrainNext]_drainVars
=============================================================================
