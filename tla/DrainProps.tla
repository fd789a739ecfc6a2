----------------------------- MODULE DrainProps -----------------------------
(***************************************************************************)
(* What the drain of one canvas must guarantee (see module Drain).         *)
(***************************************************************************)
EXTENDS Drain

TypeOK ==
  /\ meta \in Nat /\ clock \in Nat /\ cellCount \in Int /\ faults \in Nat
  /\ pixels \in [Cells -> Nat]
  /\ stream \subseteq Write /\ written \subseteq Write /\ placements \subseteq Write
  /\ lock \in Workers \cup {NoWorker}
  /\ canvasRow \in BOOLEAN
  /\ flushState \in [lastStreamId: Nat, lastFlushedVersion: Nat]
  /\ points \in [Users -> Nat]
  /\ pc \in [Workers -> {"down", "idle", "drain", "flush", "flushed", "drained"}]
  /\ cursor \in [Workers -> Nat]
  /\ batch \in [Workers -> SUBSET Write]
  /\ orphans \subseteq SUBSET Write

\* The cap of place.lua may have evicted e: StreamMaxLen later writes exist.
Evictable(e) == StreamMaxLen > 0 /\ e.id + StreamMaxLen <= clock

Kept(e) == e \in placements \/ e \in stream
Settled(e) == e \in placements \/ Evictable(e)

\* Every accepted write is durable or still in the stream, unless the MAXLEN
\* backstop pushed it past the newest StreamMaxLen: the trim after a flush, a
\* crash, a retry or a second worker never loses one (retention.md 1a and 1b,
\* "an entry is trimmed only once it is durably in placements").
NoAcceptedWriteLost == \A e \in written : Kept(e) \/ Evictable(e)

\* No resume cursor, a worker's or the durable one, ever stands past a write that
\* is not durable: whoever drains next from it skips nothing (drain.ts, loadCanvasMap).
CursorNeverSkips ==
  \A e \in written :
    /\ \A w \in Workers : e.id <= cursor[w] => Settled(e)
    /\ e.id <= flushState.lastStreamId => Settled(e)

\* The durable log has no holes: a write is durable only if every earlier one is,
\* in whatever order batches were read, abandoned and committed.
DurableIsPrefix ==
  \A p \in placements, e \in written : e.id <= p.id => Settled(e)

\* Redelivery neither duplicates a durable row nor credits a placement twice: one
\* row per version, equal to the write it was minted for, one point per row.
ExactlyOnceCredit ==
  /\ placements \subseteq written
  /\ \A p, q \in placements : p.version = q.version => p = q
  /\ \A u \in Users : points[u] = Cardinality(By(u, placements))

\* The incrementally maintained cellCount equals the number of cells whose newest
\* durable write is not empty (applyFlush's transition counting).
CellCountExact ==
  cellCount =
    Cardinality({c \in Cells : \E p \in placements :
      /\ p.cell = c /\ p.color > 0
      /\ \A q \in placements : q.cell = c => q.version <= p.version})

-----------------------------------------------------------------------------
(***************************************************************************)
(* The inductive strengthening the proofs need: how writes are numbered,   *)
(* and that a batch on its way to Convex leaves no hole below its entries. *)
(***************************************************************************)
Numbering ==
  /\ meta = clock
  /\ \A e \in written : e.id \in 1..clock /\ e.version = e.id
  /\ \A e, f \in written : e.id = f.id => e = f
  /\ stream \subseteq written
  /\ \A w \in Workers : cursor[w] <= clock
  /\ flushState.lastStreamId <= clock

NoHoleBelow(b) ==
  /\ b \subseteq written /\ b # {}
  /\ \A f \in b, e \in written : e.id <= f.id => e \in b \/ Settled(e)

InFlight ==
  /\ \A w \in Workers : pc[w] \in {"flush", "flushed"} => NoHoleBelow(batch[w])
  /\ \A w \in Workers : pc[w] = "flushed" => batch[w] \subseteq placements
  /\ \A b \in orphans : NoHoleBelow(b)

\* Every batch being flushed, awaited or abandoned, contains all that is not yet
\* durable below its newest entry, so it may commit at any time (drain.ts readNew).
DrainInv ==
  /\ Numbering
  /\ InFlight
  /\ NoAcceptedWriteLost
  /\ CursorNeverSkips
  /\ DurableIsPrefix
  /\ ExactlyOnceCredit

\* The drain implements the abstract log, as long as the cap is disabled.
Log == INSTANCE PlacementLog WITH log <- written, durable <- placements, credit <- points
ImplementsLog == Log!LogSpec
=============================================================================
