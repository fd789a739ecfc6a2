------------------------------ MODULE Recovery ------------------------------
(***************************************************************************)
(* Durable snapshots and the cold-start restore, on top of the drain.      *)
(*                                                                         *)
(* A tick of the worker may end by recording a snapshot of the live canvas *)
(* in Convex.  A worker that boots and finds no canvas in Redis rebuilds   *)
(* it from the latest snapshot and the durable placements after it.        *)
(*                                                                         *)
(* Redis may lose its volume (Wipe), or come back from an append-only file *)
(* that was last synced up to a second earlier (Rollback).  The geometry   *)
(* of the canvas does not change here.  A frame is what a snapshot blob    *)
(* carries: a version and the bitmap.                                      *)
(***************************************************************************)
EXTENDS Drain, Sequences, SequencesExt

CONSTANTS
  SnapshotRetention,  \* SNAPSHOT_RETENTION
  PageSize,           \* pageSize of restoreIfNeeded
  MaxWipes,           \* bound: losses of the Redis volume
  MaxRollbacks        \* bound: Redis restarts from an older append-only file

ASSUME RecoveryAssumption ==
  /\ SnapshotRetention \in Nat \ {0} /\ PageSize \in Nat \ {0}
  /\ MaxWipes \in Nat /\ MaxRollbacks \in Nat

VARIABLES
  snapshots,    \* Convex snapshots rows, in order of creation
  stage,        \* what a worker does outside the drain loop
  frame,        \* the frame a worker is recording, or restoring from
  tail,         \* the placements a worker has read past that frame
  snapVersion,  \* PerCanvasRuntime.snapState.lastVersion of each worker
  snapOrphans,  \* recordSnapshot requests in flight that nobody awaits any more
  fsynced,      \* what the append-only file on disk would restore
  wipes, rollbacks,
  careful        \* the discipline stated at AtRest is kept throughout

bootVars == <<stage, frame, tail>>
snapVars == <<snapshots, snapVersion, snapOrphans>>
lossVars == <<fsynced, wipes, rollbacks, careful>>
recVars  == <<drainVars, bootVars, snapVars, lossVars>>

Blank == [c \in Cells |-> 0]
NoFrame == [version |-> 0, pixels |-> Blank]
Empty == [meta |-> 0, pixels |-> Blank, stream |-> {}]
Live == [meta |-> meta, pixels |-> pixels, stream |-> stream]

RecoveryInit ==
  /\ DrainInit
  /\ snapshots = <<>> /\ snapOrphans = {}
  /\ stage = [w \in Workers |-> "off"]
  /\ frame = [w \in Workers |-> NoFrame]
  /\ tail = [w \in Workers |-> {}]
  /\ snapVersion = [w \in Workers |-> 0]
  /\ fsynced = Empty
  /\ wipes = 0 /\ rollbacks = 0 /\ careful \in BOOLEAN
-----------------------------------------------------------------------------
(***************************************************************************)
(* Convex: worker:recordSnapshot and worker:getLatestSnapshot.             *)
(***************************************************************************)

\* Snapshots after row i in the order of compaction: by version, then by creation.
NewerThan(i, rows) ==
  {j \in DOMAIN rows : \/ rows[j].version > rows[i].version
                       \/ rows[j].version = rows[i].version /\ j > i}

Compacted(rows) ==
  LET kept == {i \in DOMAIN rows : Cardinality(NewerThan(i, rows)) < SnapshotRetention}
  IN  [k \in 1..Cardinality(kept) |->
         rows[CHOOSE i \in kept : Cardinality({j \in kept : j <= i}) = k]]

RecordSnapshot(f) ==
  snapshots' = IF canvasRow THEN Compacted(Append(snapshots, f)) ELSE snapshots

LatestVersion == IF snapshots = <<>> THEN 0 ELSE Last(snapshots).version
-----------------------------------------------------------------------------
(***************************************************************************)
(* The boot of a worker: load its bookkeeping, then restore if needed.     *)
(***************************************************************************)
Move(w, s) == stage' = [stage EXCEPT ![w] = s]

BootWorker(w) ==
  /\ Boot(w)
  /\ Move(w, "meta")
  /\ \E v \in {LatestVersion, 0} : snapVersion' = [snapVersion EXCEPT ![w] = v]
  /\ UNCHANGED <<frame, tail, snapshots, snapOrphans, lossVars>>

\* metaExists: with a live canvas there is nothing to restore.
CheckMeta(w) ==
  /\ stage[w] = "meta"
  /\ Move(w, IF meta # 0 THEN "ready" ELSE "base")
  /\ UNCHANGED <<drainVars, frame, tail, snapVars, lossVars>>

\* getLatestSnapshot: without a snapshot nothing is restored.
ReadBase(w) ==
  /\ stage[w] = "base"
  /\ IF snapshots = <<>>
       THEN Move(w, "ready") /\ UNCHANGED <<frame, tail>>
       ELSE /\ Move(w, "tail")
            /\ frame' = [frame EXCEPT ![w] = Last(snapshots)]
            /\ tail' = [tail EXCEPT ![w] = {}]
  /\ UNCHANGED <<drainVars, snapVars, lossVars>>

\* (mutated) Only one page is fetched.
ReadTailOnce(w) ==
  LET from == frame[w].version
      rest == {p \in placements : p.version > from}
      page == {p \in rest : Cardinality({q \in rest : q.version < p.version}) < PageSize}
  IN  /\ stage[w] = "tail"
      /\ tail' = [tail EXCEPT ![w] = page]
      /\ Move(w, "write")
      /\ UNCHANGED <<drainVars, frame, snapVars, lossVars>>

\* One getPlacementsSince: the first PageSize durable rows past the page cursor.
ReadTail(w) ==
  LET from == Latest({frame[w].version} \cup {p.version : p \in tail[w]})
      rest == {p \in placements : p.version > from}
      page == {p \in rest : Cardinality({q \in rest : q.version < p.version}) < PageSize}
  IN  /\ stage[w] = "tail"
      /\ tail' = [tail EXCEPT ![w] = @ \cup page]
      /\ Move(w, IF Cardinality(page) < PageSize THEN "write" ELSE "tail")
      /\ UNCHANGED <<drainVars, frame, snapVars, lossVars>>

\* reconstructPixels: the frame, overwritten by the rows past its version.
Replay(f, rows) ==
  [c \in Cells |->
     LET over == {p \in rows : p.cell = c /\ p.version > f.version}
     IN  IF over = {} THEN f.pixels[c]
         ELSE (CHOOSE p \in over : \A q \in over : q.version <= p.version).id]

\* (mutated) The replayed tail does not advance the counter.
HeadVersionOfFrame(f, rows) == f.version

HeadVersion(f, rows) == Latest({f.version} \cup {p.version : p \in rows})

\* (mutated) The script is not guarded.
WriteRestoredUnguarded(w) ==
  /\ stage[w] = "write"
  /\ meta' = HeadVersion(frame[w], tail[w])
  /\ pixels' = Replay(frame[w], tail[w])
  /\ Move(w, "ready")
  /\ frame' = [frame EXCEPT ![w] = NoFrame]
  /\ tail' = [tail EXCEPT ![w] = {}]
  /\ UNCHANGED <<stream, clock, written, lock, canvasRow, convexVars, workerVars,
                 orphans, faults, snapVars, lossVars>>

\* writeRestoredCanvas: one script, guarded on the counter still being absent.
WriteRestored(w) ==
  /\ stage[w] = "write"
  /\ IF meta = 0
       THEN /\ meta' = HeadVersion(frame[w], tail[w])
            /\ pixels' = Replay(frame[w], tail[w])
       ELSE UNCHANGED <<meta, pixels>>
  /\ Move(w, "ready")
  /\ frame' = [frame EXCEPT ![w] = NoFrame]
  /\ tail' = [tail EXCEPT ![w] = {}]
  /\ UNCHANGED <<stream, clock, written, lock, canvasRow, convexVars, workerVars,
                 orphans, faults, snapVars, lossVars>>

\* Any call of the restore rejects: it is logged and the worker goes on without.
RestoreFails(w) ==
  /\ stage[w] \in {"meta", "base", "tail", "write"}
  /\ Move(w, "ready")
  /\ frame' = [frame EXCEPT ![w] = NoFrame]
  /\ tail' = [tail EXCEPT ![w] = {}]
  /\ UNCHANGED <<drainVars, snapVars, lossVars>>
-----------------------------------------------------------------------------
(***************************************************************************)
(* The tick: the drain, then a snapshot if the policy asks for one.        *)
(***************************************************************************)
Tick(w) ==
  /\ stage[w] = "ready"
  /\ StartTick(w) \/ Drain(w) \/ TickError(w) \/ EndTick(w)
  /\ UNCHANGED <<bootVars, snapVars, lossVars>>

\* shouldSnapshot says yes: the canvas advanced past the worker's last snapshot
\* (and enough time or versions went by, which is left open).
SnapshotDue(w) ==
  /\ pc[w] = "drained" /\ stage[w] = "ready"
  /\ meta > snapVersion[w]
  /\ Move(w, "build")
  /\ UNCHANGED <<drainVars, frame, tail, snapVars, lossVars>>

\* buildAndRecord reads the counter and the bitmap again, together.
BuildFrame(w) ==
  /\ stage[w] = "build"
  /\ frame' = [frame EXCEPT ![w] = [version |-> meta, pixels |-> pixels]]
  /\ Move(w, "upload")
  /\ UNCHANGED <<drainVars, tail, snapVars, lossVars>>

\* (mutated) The row is stamped with the version of the moment, not of the frame.
SnapshotRecordedLate(w) ==
  /\ stage[w] = "upload"
  /\ EndTick(w)
  /\ RecordSnapshot([frame[w] EXCEPT !.version = meta])
  /\ snapVersion' = [snapVersion EXCEPT ![w] = meta]
  /\ Move(w, "ready")
  /\ frame' = [frame EXCEPT ![w] = NoFrame]
  /\ UNCHANGED <<tail, snapOrphans, lossVars>>

\* The frame is recorded; a missing canvas row does not stop the bookkeeping.
SnapshotRecorded(w) ==
  /\ stage[w] = "upload"
  /\ EndTick(w)
  /\ RecordSnapshot(frame[w])
  /\ snapVersion' = [snapVersion EXCEPT ![w] = frame[w].version]
  /\ Move(w, "ready")
  /\ frame' = [frame EXCEPT ![w] = NoFrame]
  /\ UNCHANGED <<tail, snapOrphans, lossVars>>

AbandonFrame(w) ==
  snapOrphans' = snapOrphans \cup (IF stage[w] = "upload" THEN {frame[w]} ELSE {})

\* A call of the snapshot phase rejects: the tick is given up.
SnapshotError(w) ==
  /\ stage[w] \in {"build", "upload"}
  /\ TickError(w)
  /\ AbandonFrame(w)
  /\ Move(w, "ready")
  /\ frame' = [frame EXCEPT ![w] = NoFrame]
  /\ UNCHANGED <<tail, snapshots, snapVersion, lossVars>>

CrashWorker(w) ==
  /\ Crash(w)
  /\ AbandonFrame(w)
  /\ Move(w, "off")
  /\ frame' = [frame EXCEPT ![w] = NoFrame]
  /\ tail' = [tail EXCEPT ![w] = {}]
  /\ UNCHANGED <<snapshots, snapVersion, lossVars>>

\* An abandoned recordSnapshot reaches Convex after all.
RecordOrphan(f) ==
  /\ f \in snapOrphans
  /\ RecordSnapshot(f)
  /\ snapOrphans' = snapOrphans \ {f}
  /\ UNCHANGED <<drainVars, bootVars, snapVersion, lossVars>>
-----------------------------------------------------------------------------
(***************************************************************************)
(* Redis: appendonly yes, appendfsync everysec, on one volume.             *)
(***************************************************************************)
Fsync ==
  /\ rollbacks < MaxRollbacks /\ ~careful
  /\ fsynced' = Live
  /\ UNCHANGED <<drainVars, bootVars, snapVars, wipes, rollbacks, careful>>

Becomes(r) ==
  /\ meta' = r.meta /\ pixels' = r.pixels /\ stream' = r.stream
  /\ fsynced' = r
  /\ lock' = NoWorker
  /\ UNCHANGED <<clock, written, canvasRow, convexVars, workerVars, orphans, faults,
                 bootVars, snapVars, careful>>

\* What nothing in the code enforces: the volume is lost only while no worker runs and
\* no request of one is in flight, and no placement or moderation reaches a canvas that
\* awaits its restore; and Redis comes back from its file only as it was (which, for
\* what is modelled here, is a step that changes nothing).
AtRest == (\A w \in Workers : pc[w] = "down") /\ orphans = {} /\ snapOrphans = {}
Restored == wipes > 0 => meta # 0

Wipe ==
  /\ careful => AtRest
  /\ wipes < MaxWipes /\ wipes' = wipes + 1
  /\ Becomes(Empty)
  /\ UNCHANGED rollbacks

Rollback ==
  /\ ~careful
  /\ rollbacks < MaxRollbacks /\ rollbacks' = rollbacks + 1
  /\ Becomes(fsynced)
  /\ UNCHANGED wipes
-----------------------------------------------------------------------------
Traffic ==
  /\ careful => Restored
  /\ Produce /\ UNCHANGED <<bootVars, snapVars, lossVars>>

\* What the worker processes, Convex and the disk do.
Workings ==
  \/ (CreateCanvas \/ LockExpire) /\ UNCHANGED <<bootVars, snapVars, lossVars>>
  \/ (\E b \in orphans : CommitOrphan(b)) /\ UNCHANGED <<bootVars, snapVars, lossVars>>
  \/ \E f \in snapOrphans : RecordOrphan(f)
  \/ \E w \in Workers :
       \/ BootWorker(w) \/ CheckMeta(w) \/ ReadBase(w) \/ ReadTail(w)
       \/ WriteRestored(w) \/ RestoreFails(w)
       \/ Tick(w) \/ SnapshotDue(w) \/ BuildFrame(w) \/ SnapshotRecorded(w)
       \/ SnapshotError(w) \/ CrashWorker(w)
  \/ Fsync

RecoveryNext == Traffic \/ Workings \/ Wipe \/ Rollback

RecoverySpec == RecoveryInit /\ [][RecoveryNext]_recVars
=============================================================================
