---------------------------- MODULE FanoutProps -----------------------------
(***************************************************************************)
(* What viewers of a canvas must see (see module Fanout).                  *)
(***************************************************************************)
EXTENDS Fanout

\* Where the subscription will be once Redis has executed what it was sent.
SubscriptionAhead ==
  IF toRedis = <<>> THEN subscribed ELSE toRedis[Len(toRedis)] # "unsubscribe"

\* A canvas the gateway keeps state for is, or is about to be, subscribed: no reap,
\* however it interleaves with a new viewer, an outage or a refused command, leaves
\* an entry whose deltas never come (pubsub.ts ensureCanvasSubscribed / reap).
EntryIsSubscribed == entry => SubscriptionAhead

\* On the very first connection of a page, a viewer whose snapshot has arrived sees the
\* canvas as of the seq it claims: a gap can only come from a disconnect (ADR 0003,
\* "A live socket delivers in TCP order, so gaps can only happen across a disconnect").
\* A write between the snapshot's read and the SUBSCRIBE reaches the viewer by neither:
\* this does not hold, and no run checks it.
NoGapWhileConnected ==
  \A c \in Clients : joins = 1 /\ settled[c] => board[c] = At(applied[c])

Current(c) == loaded[c] /\ board[c] = At(Len(log))

\* Once writes stop, a page that connects shows the final canvas, whatever gaps,
\* faults and races there were before: a reload always heals.
Joining(c) ==
  \/ conn[c] = "dims"
  \/ \E i \in DOMAIN reads[c] : reads[c][i].initial /\ reads[c][i].at = None
Heals ==
  \A c \in Clients :
    (Len(log) = MaxWrites /\ Joining(c)) ~> (Current(c) \/ conn[c] = "down")

\* Under the discipline, a viewer who stays connected keeps catching up with the canvas
\* (Flush, onMessage, BoardBuffer.applyDelta).
EventuallyCurrent == \A c \in Clients : []<>(Current(c) \/ conn[c] = "down" \/ ~calm)

\* Under the discipline, viewers see the canvas, and only forward: what a page shows is
\* the canvas as of the seq it claims, from its snapshot through every coalesced delta
\* and every replay of the ring (BoardBuffer.applyDelta, DeltaCoalescer, SeqRingBuffer).
Mirror == INSTANCE CanvasMirror WITH
  view  <- [c \in Clients |-> IF settled[c] THEN applied[c] ELSE -1],
  shown <- [c \in Clients |-> IF settled[c] THEN board[c] ELSE Empty]
ImplementsMirror ==
  Mirror!MirrorInit /\ [][calm => [Mirror!MirrorNext]_(Mirror!mirrorVars)]_fanoutVars
=============================================================================
