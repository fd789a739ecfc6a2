---------------------------- MODULE PlacingProps ----------------------------
(***************************************************************************)
(* What a tap and its verdict must agree on (see Placing).                 *)
(***************************************************************************)
EXTENDS Placing

\* An op is written once however often it is sent and on whatever connection: a second
\* write can only come when the claim of the first, made after the tap, has expired
\* (placement.ts: "places exactly once"; opTtlMs covers the retry window).
PlacesExactlyOnce ==
  [][\A op \in Ops : Placed(op) > 0 /\ Placed(op)' > Placed(op) =>
       now >= sentAt[op] + OpTtl]_placingVars

\* A pixel the tab takes back is not on the canvas, unless its op was resent or its call
\* failed halfway.
RevertedMeansUnplaced ==
  strays = 0 =>
    \A op \in Ops : fate[op] = "reverted" => Placed(op) = 0 \/ op \in resent \cup failed

\* Nothing of the cell is on its way to the tab any more.
Quiet == link = "up" /\ sock = <<>> /\ pending = <<>> /\ flushed = Len(log)

\* A write of an earlier connection whose ack was lost: its resend is answered as a replay,
\* which keeps the pixel even if the cell has been written since.
Replayed == {op \in resent : fate[op] = "kept" /\ Placed(op) > 0}

\* Once its taps have their verdicts the tab shows what is on the canvas, through
\* reconnects, snapshots under pending pixels, resends and deltas that come before the
\* verdict.  Three cases are left out, in which the code shows something else: a delta that
\* left the cell alone (see RefusedPixelGoes), a replay, and two pending ops on one cell,
\* where the refusal of the first does not reach what the second would restore.
BoardShowsCanvas ==
  Quiet /\ ~smudged /\ ~overlapped => shown = Canvas \/ shown \in Replayed

\* What the tab tells its viewer of a tap is true: the fate of the op and the colour left
\* on the board (OptimisticPlacement.handle, repaintPending).
TabIsTruthful == RevertedMeansUnplaced /\ BoardShowsCanvas

\* Every tap gets its verdict as long as the connection stays up, those of earlier
\* connections included, if no refusal was misdirected (resendQueue): the queue of pending
\* ops runs empty.
EveryTapSettles ==
  (pending # <<>> /\ link = "up") ~> (pending = <<>> \/ link # "up" \/ strays > 0)

-----------------------------------------------------------------------------
\* "roll it back on a refusal" (placement.ts:5), with repaintPending "refreshing each op's
\* revert target from the new base so a later rollback stays correct" (placement.ts:352):
\* with a single op pending the board ends up at the canvas, whatever frames came under
\* it.  CanvasView.tsx:845 repaints after every frame; a delta that leaves the cell alone
\* makes the op's own paint its revert target, and the refused pixel stays.
RefusedPixelGoes == Quiet /\ ~overlapped => shown = Canvas

\* "The second call finds the key set and returns the prior ok" (place.lua): an op that
\* was written, and whose claim stands, is never answered with a refusal.  The gauge is
\* tested before the claim, so this does not hold, and no run checks it.
ReplayReturnsOk ==
  \A i \in DOMAIN sock :
    LET f == sock[i] IN
    f.t = "cooldown" => Placed(f.op) = 0 \/ now >= sentAt[f.op] + OpTtl
=============================================================================
