------------------------------- MODULE Worker -------------------------------
(***************************************************************************)
(* The life of the persistence worker around its drain cycle: the one-shot *)
(* rebuild at boot (apps/worker/src/rebuild.ts), the coalescing of drain   *)
(* triggers (nudge.ts) and the shutdown (index.ts), while players place    *)
(* and the process may die anywhere.                                       *)
(*                                                                         *)
(* The drain of a batch is one step here: module Drain opens it up, with   *)
(* several workers and requests that outlive them.  A byte of the bitmap   *)
(* is represented by the index in `log` of the write that last set it.     *)
(***************************************************************************)
EXTENDS Integers, Sequences, FiniteSets, SequencesExt

CONSTANTS
  Cells,        \* the cells of the grid
  Colors,       \* palette indexes; 0 is the empty cell
  Nudges,       \* flush requests published by the gateway
  MaxBatch,     \* FLUSH_MAX_BATCH
  MaxRounds,    \* batches one tick drains at most (50 in makeTick)
  PageSize,     \* rows of one getPlacementsSince page
  MaxAttempts,  \* REBUILD_MAX_ATTEMPTS
  Scenarios     \* the operator's REBUILD_* flags, with bounds on writes, faults and corrections

Timer == 0      \* the interval timer, as a trigger nobody waits for

ASSUME WorkerAssumption ==
  /\ Colors \subseteq Nat /\ 0 \in Colors /\ Nudges \subseteq Nat \ {Timer}
  /\ MaxBatch \in Nat \ {0} /\ MaxRounds \in Nat \ {0}
  /\ PageSize \in Nat \ {0} /\ MaxAttempts \in Nat \ {0}
  /\ Scenarios \subseteq [rebuild: BOOLEAN, force: BOOLEAN, forceEmpty: BOOLEAN,
                          writes: Nat, faults: Nat, corrections: Nat]

VARIABLES
  scenario,    \* the member of Scenarios explored; never changes
  log,         \* every accepted write: its cell, color and version
  meta,        \* Redis canvas:{id}:meta
  pixels,      \* Redis canvas:{id}:pixels
  marker,      \* Redis canvas:{id}:rebuiltAt is set
  lock,        \* Redis lock:flush:{id}: "free", "held" by this process or "stale"
  drained,     \* Convex flushState: how much of the stream is durable
  rows,        \* Convex placements: the writes that have a row
  snap,        \* the latest Convex snapshot: version and bitmap; version 0 without one
  pc,          \* where the process is in main()
  stopping,    \* WorkerRuntime.stopping
  attempt,     \* failed attempts of rebuildAtBoot
  replay,      \* what hardRebuildFromPlacements has read so far
  next,        \* DrainCoalescer.next: the triggers waiting for the next run
  batch,       \* the triggers the run in flight resolves; empty when not running
  run,         \* where the run (tick) is
  rounds,      \* batches the run has drained
  asked,       \* what each nudge waits for: how much was logged, and the outcome
  faults,      \* crashes, stops and failed calls so far
  rebuilt,     \* (history) a rebuild overwrote the bitmap
  recorded,    \* (history) no overwrite without a snapshot since
  buried,      \* (history) writes the last overwrite did not replay
  corrected    \* (history) rows deleted by a correction of the durable log

redisVars == <<log, meta, pixels, marker>>
convexVars == <<drained, rows, snap>>
bootVars == <<attempt, replay>>
runVars == <<next, batch, run, rounds, asked>>
history == <<rebuilt, recorded, buried, corrected>>
workVars == <<scenario, redisVars, lock, convexVars, pc, stopping, bootVars, runVars, faults, history>>

Blank == [c \in Cells |-> 0]
NoReplay == [cursor |-> 0, count |-> 0, image |-> Blank, from |-> {}, seen |-> 0]
Quiet == [seen |-> 0, state |-> "none"]

WorkInit ==
  /\ scenario \in Scenarios
  /\ log = <<>> /\ meta = 0 /\ pixels = Blank /\ marker = FALSE /\ lock = "free"
  /\ drained = 0 /\ rows = {} /\ snap = [version |-> 0, image |-> Blank]
  /\ pc = "down" /\ stopping = FALSE /\ attempt = 0 /\ replay = NoReplay
  /\ next = {} /\ batch = {} /\ run = "none" /\ rounds = 0
  /\ asked = [n \in Nudges |-> Quiet]
  /\ faults = 0 /\ rebuilt = FALSE /\ recorded = TRUE /\ buried = {} /\ corrected = {}
-----------------------------------------------------------------------------
Newest(S) == IF S = {} THEN 0 ELSE CHOOSE i \in S : \A j \in S : log[j].version <= log[i].version
OnCell(c, S) == {i \in S : log[i].cell = c}
Painted(image) == {c \in Cells : image[c] # 0 /\ log[image[c]].color > 0}

\* place.lua accepts a write: version, byte, stream entry.
Place(c, color) ==
  /\ Len(log) < scenario.writes
  /\ log' = Append(log, [cell |-> c, color |-> color, version |-> meta + 1])
  /\ meta' = meta + 1
  /\ pixels' = [pixels EXCEPT ![c] = Len(log) + 1]
  /\ UNCHANGED <<scenario, marker, lock, convexVars, pc, stopping, bootVars, runVars, faults, history>>

\* The operator corrects the durable log before the supervised rebuild.
Correct(i) ==
  /\ pc = "down" /\ ~rebuilt /\ i \in rows /\ Cardinality(corrected) < scenario.corrections
  /\ rows' = rows \ {i} /\ corrected' = corrected \cup {i}
  /\ UNCHANGED <<scenario, redisVars, lock, drained, snap, pc, stopping, bootVars, runVars,
                 faults, rebuilt, recorded, buried>>
-----------------------------------------------------------------------------
(***************************************************************************)
(* Boot: rebuildAtBoot, loadCanvasMap.                                     *)
(***************************************************************************)
Boot ==
  /\ pc = "down"
  /\ pc' = IF scenario.rebuild THEN "rebuild" ELSE "load"
  /\ attempt' = 0 /\ stopping' = FALSE
  /\ UNCHANGED <<scenario, redisVars, lock, convexVars, replay, runVars, faults, history>>

Step(from, to) == pc = from /\ pc' = to
Booting == <<scenario, log, lock, drained, rows, stopping, attempt, runVars, faults, corrected>>

\* The one-shot lock: a marked canvas is not rebuilt again unless forced.  The read is
\* best-effort: when it fails, the rebuild goes on as if there were no marker.
CheckMarker ==
  /\ \/ /\ Step("rebuild", IF marker /\ ~scenario.force THEN "load" ELSE "page")
        /\ UNCHANGED faults
     \/ /\ ~scenario.force /\ Step("rebuild", "page")
        /\ faults < scenario.faults /\ faults' = faults + 1
  /\ replay' = NoReplay
  /\ UNCHANGED <<scenario, log, lock, drained, rows, stopping, attempt, runVars, corrected,
                 meta, pixels, marker, snap, rebuilt, recorded, buried>>

\* (mutated) The first write seen on a cell stays.
PageKeepsFirst ==
  LET rest == {i \in rows : log[i].version > replay.cursor}
      page == {i \in rest : Cardinality({j \in rest : log[j].version < log[i].version}) < PageSize}
  IN  /\ Step("page", IF Cardinality(page) < PageSize THEN "guard" ELSE "page")
      /\ replay' =
           [replay EXCEPT
              !.cursor = IF page = {} THEN @ ELSE log[Newest(page)].version,
              !.count = @ + Cardinality(page),
              !.from = @ \cup page,
              !.image = [c \in Cells |-> IF OnCell(c, page) = {} \/ replay.image[c] # 0
                                         THEN replay.image[c] ELSE Newest(OnCell(c, page))]]
      /\ UNCHANGED <<Booting, meta, pixels, marker, snap, rebuilt, recorded, buried>>

\* One page of placements past the cursor, in version order, over the image so far.
Page ==
  LET rest == {i \in rows : log[i].version > replay.cursor}
      page == {i \in rest : Cardinality({j \in rest : log[j].version < log[i].version}) < PageSize}
  IN  /\ Step("page", IF Cardinality(page) < PageSize THEN "guard" ELSE "page")
      /\ replay' =
           [replay EXCEPT
              !.cursor = IF page = {} THEN @ ELSE log[Newest(page)].version,
              !.count = @ + Cardinality(page),
              !.from = @ \cup page,
              !.image = [c \in Cells |-> IF OnCell(c, page) = {} THEN replay.image[c]
                                         ELSE Newest(OnCell(c, page))]]
      /\ UNCHANGED <<Booting, meta, pixels, marker, snap, rebuilt, recorded, buried>>

\* (mutated) Only a log without a single row counts as an empty replay.
GuardCountsRows ==
  /\ Step("guard", IF replay.count = 0 /\ ~scenario.forceEmpty /\ Painted(pixels) # {}
                   THEN "load" ELSE "overwrite")
  /\ replay' = [replay EXCEPT !.seen = Len(log)]
  /\ UNCHANGED <<Booting, meta, pixels, marker, snap, rebuilt, recorded, buried>>

\* The anti-wipe guard: an empty replay never goes over a populated grid unforced.
Guard ==
  /\ Step("guard", IF Painted(replay.image) = {} /\ ~scenario.forceEmpty /\ Painted(pixels) # {}
                   THEN "load" ELSE "overwrite")
  /\ replay' = [replay EXCEPT !.seen = Len(log)]
  /\ UNCHANGED <<Booting, meta, pixels, marker, snap, rebuilt, recorded, buried>>

\* OVERWRITE_LUA: the bitmap is replaced, the counter only moves up.
Overwrite ==
  /\ Step("overwrite", "record")
  /\ pixels' = replay.image
  /\ meta' = IF meta > replay.cursor THEN meta ELSE replay.cursor
  /\ rebuilt' = TRUE /\ recorded' = FALSE /\ buried' = DOMAIN log \ replay.from
  /\ UNCHANGED <<Booting, marker, snap, replay>>

\* (mutated) The snapshot is stamped with the head of the replay.
RecordReplayed ==
  /\ Step("record", "mark")
  /\ snap' = [version |-> replay.cursor, image |-> pixels]
  /\ recorded' = TRUE
  /\ UNCHANGED <<Booting, meta, pixels, marker, replay, rebuilt, buried>>

\* buildAndRecord on the live canvas: version and bytes of one moment.
Record ==
  /\ Step("record", "mark")
  /\ snap' = [version |-> meta, image |-> pixels]
  /\ recorded' = TRUE
  /\ UNCHANGED <<Booting, meta, pixels, marker, replay, rebuilt, buried>>

Mark ==
  /\ Step("mark", "load")
  /\ marker' = TRUE
  /\ UNCHANGED <<Booting, meta, pixels, snap, replay, rebuilt, recorded, buried>>

\* A call of the rebuild fails: a thrown error is retried so many times, a snapshot or
\* marker that fails is reported; the boot goes on.
RebuildFails ==
  /\ faults < scenario.faults
  /\ faults' = faults + 1
  /\ \/ /\ pc \in {"rebuild", "page", "guard", "overwrite"}
        /\ attempt' = attempt + 1
        /\ pc' = IF attempt + 1 < MaxAttempts THEN "rebuild" ELSE "load"
     \/ pc \in {"record", "mark"} /\ pc' = "load" /\ UNCHANGED attempt
  /\ UNCHANGED <<scenario, redisVars, lock, convexVars, stopping, replay, runVars, history>>

\* loadCanvasMap, the restore that finds the canvas live, timer and subscriptions.
Load ==
  /\ Step("load", "running")
  /\ UNCHANGED <<scenario, redisVars, lock, convexVars, stopping, bootVars, runVars, faults, history>>
-----------------------------------------------------------------------------
(***************************************************************************)
(* DrainCoalescer and the run it serialises (tick).                        *)
(***************************************************************************)
RunStep == <<scenario, log, meta, pixels, marker, pc, stopping, bootVars, rebuilt, buried, corrected>>

\* The first stretch of a run: nothing to do once stopping, the lock or nothing.
Starts(triggers) ==
  /\ batch' = triggers /\ rounds' = 0
  /\ run' = IF stopping \/ lock # "free" THEN "skipped" ELSE "drain"
  /\ lock' = IF stopping \/ lock # "free" THEN lock ELSE "held"

Waits(t) ==
  asked' = IF t = Timer THEN asked ELSE [asked EXCEPT ![t] = [seen |-> Len(log), state |-> "waiting"]]

\* (mutated) A trigger during a run is answered by that run.
TriggerJoins(t) ==
  /\ pc = "running" /\ (t = Timer => ~stopping)
  /\ t # Timer => asked[t].state = "none"
  /\ Waits(t)
  /\ IF batch = {} THEN Starts({t}) /\ UNCHANGED next
     ELSE batch' = batch \cup {t} /\ UNCHANGED <<next, lock, run, rounds>>
  /\ UNCHANGED <<RunStep, recorded, convexVars, faults>>

\* trigger(): a run for it starts now, or after the one in flight, shared with every
\* other trigger of the meantime.  The timer is cleared first when stopping; a nudge
\* may still come through its subscription.
Trigger(t) ==
  /\ pc = "running" /\ (t = Timer => ~stopping)
  /\ t # Timer => asked[t].state = "none"
  /\ Waits(t)
  /\ IF batch = {} THEN Starts({t}) /\ UNCHANGED next
     ELSE next' = next \cup {t} /\ UNCHANGED <<batch, lock, run, rounds>>
  /\ UNCHANGED <<RunStep, recorded, convexVars, faults>>

\* drainOnce: the next batch of the stream becomes durable (module Drain).  A short
\* batch, or the last one a tick may drain, ends the loop.
DrainOnce ==
  /\ run = "drain"
  /\ LET read == IF Len(log) - drained < MaxBatch THEN Len(log) - drained ELSE MaxBatch
     IN  /\ drained' = drained + read
         /\ rows' = rows \cup (drained + 1..drained + read)
         /\ rounds' = rounds + 1
         /\ run' = IF read < MaxBatch THEN "drained"
                   ELSE IF rounds + 1 >= MaxRounds THEN "yielded" ELSE "drain"
  /\ UNCHANGED <<RunStep, recorded, lock, snap, next, batch, asked, faults>>

\* The snapshot policy: with something new since the last one, sooner or later.
Snapshot ==
  /\ run \in {"drained", "yielded"} /\ meta > snap.version
  /\ snap' = [version |-> meta, image |-> pixels] /\ recorded' = TRUE
  /\ UNCHANGED <<RunStep, lock, drained, rows, runVars, faults>>

Answered(outcome) ==
  [n \in Nudges |-> IF n \in batch THEN [asked[n] EXCEPT !.state = outcome] ELSE asked[n]]

\* (mutated) The batch is detached after the run: triggers of the meantime go with it.
EndsWithDrop(outcome) ==
  /\ asked' = Answered(outcome)
  /\ next' = {} /\ batch' = {} /\ run' = "none" /\ rounds' = 0
  /\ lock' = IF run = "skipped" THEN lock ELSE "free"

\* The end of a run: the lock goes, the batch is resolved, the next one starts at once.
EndsWith(outcome) ==
  /\ asked' = Answered(outcome)
  /\ IF next = {}
     THEN /\ batch' = {} /\ run' = "none" /\ rounds' = 0 /\ UNCHANGED next
          /\ lock' = IF run = "skipped" THEN lock ELSE "free"
     ELSE LET free == run # "skipped" \/ lock = "free"
          IN  /\ next' = {} /\ batch' = next /\ rounds' = 0
              /\ run' = IF stopping \/ ~free THEN "skipped" ELSE "drain"
              /\ lock' = IF ~free THEN lock ELSE IF stopping THEN "free" ELSE "held"

EndRun ==
  /\ run \in {"drained", "yielded", "skipped"}
  /\ EndsWith(IF run = "drained" THEN "served" ELSE run)
  /\ UNCHANGED <<RunStep, recorded, convexVars, faults>>

\* A call of the tick fails: logged, the run is over.
RunFails ==
  /\ run \in {"drain", "drained", "yielded"} /\ faults < scenario.faults
  /\ faults' = faults + 1
  /\ EndsWith("failed")
  /\ UNCHANGED <<RunStep, recorded, convexVars>>
-----------------------------------------------------------------------------
(***************************************************************************)
(* Shutdown, crash, and the lock's TTL.                                    *)
(***************************************************************************)
\* SIGTERM: no new drain, the timer is cleared.
Shutdown ==
  /\ pc = "running" /\ ~stopping /\ faults < scenario.faults
  /\ stopping' = TRUE /\ faults' = faults + 1
  /\ UNCHANGED <<scenario, redisVars, lock, convexVars, pc, bootVars, runVars, history>>

Gone ==
  /\ pc' = "down" /\ stopping' = FALSE
  /\ asked' = [n \in Nudges |-> IF asked[n].state = "waiting"
                                THEN [asked[n] EXCEPT !.state = "lost"] ELSE asked[n]]
  /\ next' = {} /\ batch' = {} /\ run' = "none" /\ rounds' = 0
  /\ lock' = IF lock = "held" THEN "stale" ELSE lock
  /\ UNCHANGED <<scenario, redisVars, convexVars, bootVars, history>>

\* Once no run is in flight, or at the deadline of five seconds, the process exits.
Exit ==
  /\ stopping
  /\ Gone
  /\ UNCHANGED faults

Crash ==
  /\ pc # "down" /\ faults < scenario.faults
  /\ faults' = faults + 1
  /\ Gone

LockExpires ==
  /\ lock = "stale" /\ lock' = "free"
  /\ UNCHANGED <<scenario, redisVars, convexVars, pc, stopping, bootVars, runVars, faults, history>>

Rebuild == CheckMarker \/ Page \/ Guard \/ Overwrite \/ Record \/ Mark
Run == DrainOnce \/ Snapshot \/ EndRun

WorkNext ==
  \/ \E c \in Cells, color \in Colors : Place(c, color)
  \/ \E i \in 1..Len(log) : Correct(i)
  \/ Boot \/ Rebuild \/ RebuildFails \/ Load
  \/ \E t \in Nudges \cup {Timer} : Trigger(t)
  \/ Run \/ RunFails
  \/ Shutdown \/ Exit \/ Crash \/ LockExpires

WorkSpec == WorkInit /\ [][WorkNext]_workVars

(***************************************************************************)
(* Fairness: the supervisor restarts the process, the timer keeps firing,  *)
(* every awaited call settles, a TTL runs out.  Nobody must write, nudge,  *)
(* stop or fail.                                                           *)
(***************************************************************************)
FairWorkSpec ==
  /\ WorkSpec
  /\ WF_workVars(Boot) /\ WF_workVars(Rebuild) /\ WF_workVars(Load)
  /\ WF_workVars(Trigger(Timer)) /\ WF_workVars(DrainOnce) /\ WF_workVars(EndRun)
  /\ WF_workVars(Exit) /\ WF_workVars(LockExpires)
-----------------------------------------------------------------------------
(***************************************************************************)
(* What the worker's boot, triggers and shutdown must preserve.            *)
(***************************************************************************)

\* A trigger is answered only by a run that started after it: when its promise resolves
\* and the run neither failed nor yielded, everything logged before it is durable, in
\* whatever order runs, bursts and failures came (DrainCoalescer).
AnswerCoversTrigger ==
  \A n \in Nudges : asked[n].state = "served" => drained >= asked[n].seen

\* Unforced, a rebuild never turns a populated grid blank, except over pixels placed
\* after its guard looked (hardRebuildFromPlacements, 2b).
NeverWipesPopulated ==
  [][ ~scenario.forceEmpty /\ Painted(pixels) # {} /\ pixels' # pixels
      /\ (\A c \in Cells : pixels'[c] = 0 \/ log'[pixels'[c]].color = 0)
      /\ log' = log
      => \A c \in Painted(pixels) : pixels[c] > replay.seen ]_workVars

\* After a rebuild each cell shows the newest write of the corrected log, except what was
\* accepted but not yet durable when it read the log (that pixel goes from the canvas).
RebuildShowsLog ==
  rebuilt =>
    \A c \in Cells : pixels[c] = Newest(OnCell(c, DOMAIN log \ (buried \cup corrected)))

\* With the stream drained, a cold start would rebuild from the latest snapshot and the
\* rows after it exactly the live grid, also after a rebuild that left pixels behind;
\* not while the overwritten grid has no snapshot (a rebuild that stopped halfway).
RestoreShowsLive ==
  drained = Len(log) /\ snap.version > 0 /\ (corrected = {} \/ rebuilt) /\ recorded =>
    \A c \in Cells :
      LET tail == {i \in OnCell(c, rows) : log[i].version > snap.version}
      IN  pixels[c] = IF tail = {} THEN snap.image[c] ELSE Newest(tail)

\* Every accepted write becomes durable, and every flush request is answered or lost with
\* the process: no burst, failed run, refused lock or stop wedges the coalescer.
DrainsForever ==
  /\ \A i \in 1..2 : (Len(log) >= i) ~> (drained >= i)
  /\ \A n \in Nudges : (asked[n].state = "waiting") ~> (asked[n].state # "waiting")
=============================================================================
