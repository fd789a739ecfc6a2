------------------------------- MODULE Placing -------------------------------
(***************************************************************************)
(* A placement from the tap to its verdict: the optimistic client, the     *)
(* socket, the gateway's handler, place.lua with its op claims, and the    *)
(* way back.                                                               *)
(*                                                                         *)
(* One tab of one viewer on one canvas.  The socket and the command        *)
(* connection are FIFO.  The tab loses its connection and resends, under   *)
(* the same op id, what has no verdict yet.  The handler is asynchronous:  *)
(* a message may be refused at once, or wait for fresh dims, while earlier *)
(* ones are still at the script.  The tab's own checks before a tap (its   *)
(* copy of the gauge, the bounds) only keep it from sending what would be  *)
(* refused; they are left open.                                            *)
(*                                                                         *)
(* The taps are all on one cell, which others write too.  Deltas reach the *)
(* tab over the same socket as its verdicts but on no schedule of theirs,  *)
(* and every one of them, whatever cells it writes, has the tab repaint    *)
(* its pending pixels.  How deltas and snapshots fit together is Fanout's. *)
(***************************************************************************)
EXTENDS PlaceScript, Sequences, FiniteSets, FiniteSetsExt

CONSTANTS
  Ops,        \* op ids (cid), one for each tap
  GaugeMax,   \* effective maximum of the gauge
  OpTtl,      \* opTtlMs
  MaxTime,    \* bound: the clock
  MaxJoins,   \* bound: connections
  MaxFaults   \* bound: refusals out of order, failed script calls and writes of others

ASSUME PlacingAssumption ==
  /\ GaugeMax \in Nat \ {0} /\ OpTtl \in Nat \ {0}
  /\ MaxTime \in Nat /\ MaxJoins \in Nat /\ MaxFaults \in Nat
  /\ Ops \cap {"other", "elsewhere", "empty", "none"} = {}

VARIABLES
  now,
  gauge,     \* the viewer's gauge hash
  claim,     \* op id -> when its claim key expires, 0 for never claimed
  log,       \* who made each write: an op, "other" on the cell, "elsewhere" off it
  flushed,   \* the writes the coalescer has sent out
  link,      \* the tab's socket: "down", "open", or "up" once the welcome is in
  joins,     \* connections so far
  greeted,   \* the gateway has sent this connection's welcome
  known,     \* CanvasNetClient.everConnected
  toGw,      \* place messages on their way to the gateway
  detours,   \* places that await forceResolve
  calls,     \* place.lua calls on the command connection
  sock,      \* replies on their way to the tab
  pending,   \* OptimisticPlacement.pending, oldest first
  fate,      \* each op: "idle", "pending", "kept" or "reverted"
  shown,     \* what the board shows on the cell: who painted it, or "empty"
  prev,      \* PendingPlacement.prevColor, "empty" for an op that is not pending
  loaded,    \* BoardBuffer.loaded
  applied,   \* BoardBuffer.appliedSeq
  smudged,   \* a frame that left the cell alone came under a pending op (history)
  overlapped, \* two ops were pending at once (history)
  sentAt,    \* when each op was first sent (history)
  resent,    \* ops sent more than once (history)
  failed,    \* ops whose script call failed (history)
  strays,    \* cid-less refusals and answers out of order, early taps (history)
  faults

redisVars   == <<gauge, claim, log>>
gatewayVars == <<greeted, detours, calls, flushed>>
wireVars    == <<toGw, sock>>
boardVars   == <<shown, prev, loaded, applied, smudged, overlapped>>
tabVars     == <<link, joins, known, pending, fate, sentAt, resent, boardVars>>
verdictVars == <<failed, strays, faults>>
placingVars == <<now, redisVars, gatewayVars, wireVars, tabVars, verdictVars>>

\* A frame to the tab: a verdict on an op, or the writes after `from' up to `at'.
To(t, op) == [t |-> t, op |-> op, from |-> 0, at |-> 0]
Pixels(t, from, at) == [t |-> t, op |-> "none", from |-> from, at |-> at]

\* Who the writes after `from' up to `at' leave on the cell.
Ink(from, at) ==
  LET S == {i \in (from + 1)..at : log[i] # "elsewhere"}
  IN  IF S = {} THEN "none" ELSE log[Max(S)]

Canvas == IF Ink(0, Len(log)) = "none" THEN "empty" ELSE Ink(0, Len(log))

\* How often an op was written.
Placed(op) == Cardinality({i \in DOMAIN log : log[i] = op})

\* A call outlives its connection; its answer does not.
Call == [op: Ops, live: BOOLEAN]

PlacingInit ==
  /\ now = 0 /\ gauge = NoGauge
  /\ claim = [op \in Ops |-> 0] /\ log = <<>> /\ flushed = 0
  /\ link = "down" /\ joins = 0 /\ greeted = FALSE /\ known = FALSE
  /\ toGw = <<>> /\ calls = <<>> /\ sock = <<>> /\ detours = {}
  /\ pending = <<>> /\ fate = [op \in Ops |-> "idle"]
  /\ sentAt = [op \in Ops |-> 0]
  /\ shown = "empty" /\ prev = [op \in Ops |-> "empty"]
  /\ loaded = FALSE /\ applied = 0 /\ smudged = FALSE /\ overlapped = FALSE
  /\ resent = {} /\ failed = {} /\ strays = 0 /\ faults = 0

Tick ==
  /\ now < MaxTime
  /\ now' = now + 1
  /\ UNCHANGED <<redisVars, gatewayVars, wireVars, tabVars, verdictVars>>

Fault == faults < MaxFaults /\ faults' = faults + 1

\* Another viewer places a pixel, on the cell or off it.
OthersWrite ==
  /\ Fault
  /\ \E w \in {"other", "elsewhere"} : log' = Append(log, w)
  /\ UNCHANGED <<now, gauge, claim, gatewayVars, wireVars, tabVars, failed, strays>>
-----------------------------------------------------------------------------
(***************************************************************************)
(* The tab.                                                                *)
(***************************************************************************)
Connect ==
  /\ link = "down" /\ joins < MaxJoins
  /\ link' = "open" /\ joins' = joins + 1
  /\ greeted' = FALSE
  /\ UNCHANGED <<now, redisVars, detours, calls, flushed, wireVars>>
  /\ UNCHANGED <<known, pending, fate, sentAt, resent, boardVars, verdictVars>>

\* OptimisticPlacement.place and net.place: the pixel is painted at once.  A tap between
\* the opening of a renewed socket and its welcome is sent, and sent again on the welcome.
Tap(op) ==
  /\ fate[op] = "idle"
  /\ \/ link = "up" /\ UNCHANGED <<strays, faults>>
     \/ /\ link = "open" /\ known /\ faults < MaxFaults
        /\ strays' = strays + 1 /\ faults' = faults + 1
  /\ fate' = [fate EXCEPT ![op] = "pending"]
  /\ pending' = Append(pending, op)
  /\ toGw' = Append(toGw, op)
  /\ sentAt' = [sentAt EXCEPT ![op] = now]
  /\ prev' = [prev EXCEPT ![op] = shown]
  /\ shown' = IF loaded THEN op ELSE shown
  /\ overlapped' = (overlapped \/ pending # <<>>)
  /\ UNCHANGED <<now, redisVars, gatewayVars, sock, link, joins, known, resent>>
  /\ UNCHANGED <<loaded, applied, smudged, failed>>

\* (mutated) Nothing is resent.
ResendNothing == <<>>

\* resendQueue: what has no verdict, oldest first.
ResendQueue == pending

\* Map.delete: the others keep their order.
Without(op) ==
  LET k == CHOOSE i \in DOMAIN pending : pending[i] = op
  IN  [i \in 1..(Len(pending) - 1) |-> pending[IF i < k THEN i ELSE i + 1]]

\* An op leaves `pending': its pixel stays, or goes back to what was under it.
Commit(op) ==
  /\ pending' = Without(op)
  /\ fate' = [fate EXCEPT ![op] = "kept"]
  /\ prev' = [prev EXCEPT ![op] = "empty"]
  /\ UNCHANGED shown
Rollback(op) ==
  /\ pending' = Without(op)
  /\ fate' = [fate EXCEPT ![op] = "reverted"]
  /\ prev' = [prev EXCEPT ![op] = "empty"]
  /\ shown' = IF loaded THEN prev[op] ELSE shown

\* An ack commits and an error rolls back, if the op is still pending; a refusal
\* without a cid rolls back the oldest.
Settle(f) ==
  IF pending = <<>> \/ (f.t \in {"ack", "refused"} /\ fate[f.op] # "pending")
  THEN UNCHANGED <<pending, fate, shown, prev>>
  ELSE \/ f.t = "ack" /\ Commit(f.op)
       \/ f.t = "refused" /\ Rollback(f.op)
       \/ f.t \in {"cooldown", "stray"} /\ Rollback(Head(pending))

\* (mutated) The revert targets stay.
RepaintKeeps(base) ==
  /\ shown' = IF pending = <<>> THEN base ELSE pending[Len(pending)]
  /\ UNCHANGED prev

\* repaintPending over a loaded board: each op is painted over what it now finds.
Repaint(base) ==
  /\ shown' = IF pending = <<>> THEN base ELSE pending[Len(pending)]
  /\ prev' = [op \in Ops |->
                IF \E i \in DOMAIN pending : pending[i] = op
                THEN LET i == CHOOSE j \in DOMAIN pending : pending[j] = op
                     IN  IF i = 1 THEN base ELSE pending[i - 1]
                ELSE "empty"]

\* A snapshot replaces the board; a delta is painted on it, unless nothing is loaded or
\* it is not newer.  Either way the pending pixels are repainted.
Show(f) ==
  LET fresh == f.t = "snapshot" \/ (loaded /\ f.at > applied)
      ink   == IF fresh THEN Ink(f.from, f.at) ELSE "none"
  IN  /\ loaded' = (loaded \/ f.t = "snapshot")
      /\ applied' = IF fresh THEN f.at ELSE applied
      /\ IF ~loaded' THEN UNCHANGED <<shown, prev>>
         ELSE Repaint(IF ink # "none" THEN ink
                      ELSE IF f.t = "snapshot" THEN "empty" ELSE shown)
      /\ smudged' = (smudged \/ (pending # <<>> /\ f.t = "delta" /\ ink = "none"))

\* The next frame: OptimisticPlacement.handle, the board and its repaint, or the welcome
\* that triggers the resend on a reconnect.
Receive ==
  /\ sock # <<>>
  /\ sock' = Tail(sock)
  /\ LET f == Head(sock) IN
       \/ /\ f.t = "welcome"
          /\ link' = "up" /\ known' = TRUE
          /\ toGw' = toGw \o (IF known THEN ResendQueue ELSE <<>>)
          /\ resent' = IF known THEN resent \cup {pending[i] : i \in DOMAIN pending} ELSE resent
          /\ UNCHANGED <<pending, fate, shown, prev, loaded, applied, smudged>>
       \/ /\ f.t \in {"ack", "refused", "cooldown", "stray"}
          /\ Settle(f)
          /\ UNCHANGED <<toGw, link, known, resent, loaded, applied, smudged>>
       \/ /\ f.t \in {"snapshot", "delta"}
          /\ Show(f)
          /\ UNCHANGED <<toGw, link, known, resent, pending, fate>>
  /\ UNCHANGED <<now, redisVars, gatewayVars, joins, sentAt, overlapped, verdictVars>>

\* The connection ends: what is on the wire is lost, and so are the answers to come.
Drop ==
  /\ link # "down"
  /\ link' = "down"
  /\ toGw' = <<>> /\ sock' = <<>>
  /\ calls' = [i \in DOMAIN calls |-> [calls[i] EXCEPT !.live = FALSE]]
  /\ detours' = {[d EXCEPT !.live = FALSE] : d \in detours}
  /\ UNCHANGED <<now, redisVars, greeted, flushed, joins, known, pending, fate>>
  /\ UNCHANGED <<sentAt, resent, boardVars, verdictVars>>
-----------------------------------------------------------------------------
(***************************************************************************)
(* The gateway.                                                            *)
(***************************************************************************)
\* sendInitialState: the welcome and the snapshot behind it.
Welcome ==
  /\ link = "open" /\ ~greeted
  /\ greeted' = TRUE
  /\ sock' = sock \o <<To("welcome", "none"), Pixels("snapshot", 0, Len(log))>>
  /\ UNCHANGED <<now, redisVars, detours, calls, flushed, toGw, tabVars, verdictVars>>

\* The coalescer's timer: what was written since the last flush, to every connection.
Flush ==
  /\ flushed < Len(log)
  /\ flushed' = Len(log)
  /\ sock' = IF link = "down" THEN sock
             ELSE Append(sock, Pixels("delta", flushed, Len(log)))
  /\ UNCHANGED <<now, redisVars, greeted, detours, calls, toGw, tabVars, verdictVars>>

\* onClientMessage and handlePlace, up to the script call.
Handle ==
  /\ toGw # <<>>
  /\ toGw' = Tail(toGw)
  /\ LET op == Head(toGw) IN
       \/ /\ calls' = Append(calls, [op |-> op, live |-> TRUE])
          /\ UNCHANGED <<detours, sock, strays, faults>>
       \/ \* The rate limit: an error without a cid, at once.
          /\ Fault
          /\ strays' = strays + 1
          /\ sock' = Append(sock, To("stray", op))
          /\ UNCHANGED <<detours, calls>>
       \/ \* The dims are not cached: an error with the cid, at once.
          /\ Fault
          /\ sock' = Append(sock, To("refused", op))
          /\ UNCHANGED <<detours, calls, strays>>
       \/ \* Outside the cached dims: later messages go on meanwhile.
          /\ Fault
          /\ strays' = strays + 1
          /\ detours' = detours \cup {[op |-> op, live |-> TRUE]}
          /\ UNCHANGED <<calls, sock>>
  /\ UNCHANGED <<now, redisVars, greeted, flushed, tabVars, failed>>

\* forceResolve settles: inside the fresh dims, or out of bounds.
Resolve(d) ==
  /\ detours' = detours \ {d}
  /\ \/ /\ calls' = Append(calls, d)
        /\ UNCHANGED sock
     \/ /\ sock' = IF d.live THEN Append(sock, To("refused", d.op)) ELSE sock
        /\ UNCHANGED calls
  /\ UNCHANGED <<now, redisVars, greeted, flushed, toGw, tabVars, failed, strays, faults>>

\* (mutated) A claim is never looked at.
VerdictUnclaimed(op, barred) ==
  IF barred THEN "refused"
  ELSE IF Refilled(gauge, now, GaugeMax).c < 1 THEN "cooldown"
  ELSE "ok"

\* place.lua: freeze and ban, then the gauge, then the claim.  A moderator may freeze,
\* reopen, ban or unban between any two calls, so `barred' is open at each.
Verdict(op, barred) ==
  IF barred THEN "refused"
  ELSE IF Refilled(gauge, now, GaugeMax).c < 1 THEN "cooldown"
  ELSE IF claim[op] > now THEN "replay"
  ELSE "ok"

\* What the script changes: the claim, the pixel and the charge, or nothing.
Effect(op, barred) ==
  IF Verdict(op, barred) = "ok"
  THEN /\ claim' = [claim EXCEPT ![op] = now + OpTtl]
       /\ log' = Append(log, op)
       /\ gauge' = Consumed(gauge, now, GaugeMax)
  ELSE UNCHANGED <<claim, log, gauge>>

\* A replay is answered as the placement was.
Answer(op, barred) ==
  IF Verdict(op, barred) \in {"ok", "replay"} THEN "ack" ELSE Verdict(op, barred)

\* Redis runs the next call and the gateway passes its answer on.
Execute ==
  /\ calls # <<>>
  /\ calls' = Tail(calls)
  /\ \E barred \in BOOLEAN : LET c == Head(calls) IN
       /\ Effect(c.op, barred)
       /\ sock' = IF c.live THEN Append(sock, To(Answer(c.op, barred), c.op)) ELSE sock
  /\ UNCHANGED <<now, greeted, flushed, detours, toGw, tabVars, failed, strays, faults>>

\* The call rejects, whether or not the script ran: an error with the cid.
ExecuteFails ==
  /\ calls # <<>>
  /\ Fault
  /\ calls' = Tail(calls)
  /\ LET c == Head(calls) IN
       /\ (\E barred \in BOOLEAN : Effect(c.op, barred)) \/ UNCHANGED <<claim, log, gauge>>
       /\ sock' = IF c.live THEN Append(sock, To("refused", c.op)) ELSE sock
       /\ failed' = failed \cup {c.op}
  /\ UNCHANGED <<now, greeted, flushed, detours, toGw, tabVars, strays>>
-----------------------------------------------------------------------------
PlacingNext ==
  \/ Tick \/ OthersWrite \/ Connect \/ Receive \/ Drop
  \/ Flush \/ Welcome \/ Handle \/ Execute \/ ExecuteFails
  \/ \E op \in Ops : Tap(op)
  \/ \E d \in detours : Resolve(d)

\* Every queue is served and every answer comes; nobody has to tap or to reconnect.
Fairness ==
  /\ WF_placingVars(Receive) /\ WF_placingVars(Welcome)
  /\ WF_placingVars(Handle) /\ WF_placingVars(Execute) /\ WF_placingVars(Flush)
  /\ WF_placingVars(\E d \in detours : Resolve(d))

PlacingSpec == PlacingInit /\ [][PlacingNext]_placingVars /\ Fairness
=============================================================================
