--------------------------- MODULE RecoveryProps ----------------------------
(***************************************************************************)
(* What snapshots and the cold-start restore must guarantee (see Recovery).*)
(***************************************************************************)
EXTENDS Recovery, DrainProps

-----------------------------------------------------------------------------
(***************************************************************************)
(* Whatever Redis loses and whenever it does.                              *)
(***************************************************************************)

-----------------------------------------------------------------------------
(***************************************************************************)
(* When the volume is lost at rest and traffic waits for the restore.      *)
(***************************************************************************)
Pending == stream \cup (UNION {batch[w] : w \in Workers}) \cup (UNION orphans)

\* A version is never minted for two writes that may both reach Convex, where the
\* second would be skipped as a duplicate of the first (persistence-worker.md:
\* "idempotent on (canvasId, version)").
NoVersionReuse ==
  careful => \A e, f \in placements \cup Pending : e.version = f.version => e = f

\* An empty Redis can always be rebuilt from Convex, once a snapshot exists: the latest
\* snapshot and the placements after it give a canvas no cell of which is behind the
\* durable log (restoreIfNeeded, recordSnapshot and its compaction).
AlwaysRebuildable ==
  careful /\ snapshots # <<>> =>
    LET f == Last(snapshots)
        board == Replay(f, placements)
    IN  \A p \in placements : board[p.cell] >= p.id /\ p.version <= HeadVersion(f, placements)

\* The bitmap a restore is about to write covers every durable row there was when the
\* last page was read, however many pages it took (getPlacementsSince paging).
RestoreIsComplete ==
  \A w \in Workers : careful /\ stage[w] = "write" /\ meta = 0 =>
    \A p \in placements : Replay(frame[w], tail[w])[p.cell] >= p.id

-----------------------------------------------------------------------------
(***************************************************************************)
(* Until Redis first loses something.                                      *)
(***************************************************************************)
Lossless == wipes = 0 /\ rollbacks = 0

\* Snapshots and restores are invisible to the drain as long as Redis has lost nothing:
\* no worker that boots, however late its restore runs, ever writes over a canvas in
\* use, and every step is one of module Drain ("Redis is authoritative on the hot path").
ImplementsDrain == DrainInit /\ [][Lossless' => [DrainNext]_drainVars]_recVars
=============================================================================
