----------------------------- MODULE PlaceScript -----------------------------
(***************************************************************************)
(* The arithmetic of a viewer's gauge that place.lua, grant.lua and        *)
(* refill-peek.lua share with gauge.ts: a token bucket refilled lazily,    *)
(* kept in a Redis hash {c, ts} with a time to live.                       *)
(*                                                                         *)
(* A hash that does not exist is one that has expired: [dies |-> 0] stands *)
(* for a gauge never written.  Times are in units of the model's clock.    *)
(***************************************************************************)
EXTENDS Integers

CONSTANTS
  Interval,  \* refillIntervalMs
  Amount,    \* refillAmount
  GaugeTtl   \* gaugeTtlMs (not 0, which would mean forever)

ASSUME ScriptAssumption ==
  /\ Interval \in Nat \ {0} /\ Amount \in Nat \ {0} /\ GaugeTtl \in Nat \ {0}

Gauge == [c: Nat, ts: Nat, dies: Nat]
NoGauge == [c |-> 0, ts |-> 0, dies |-> 0]

AtMost(n, max) == IF n > max THEN max ELSE n

\* Whole ticks since ts; a clock that went back counts as no time at all.
Ticks(ts, now) == IF now > ts THEN (now - ts) \div Interval ELSE 0

\* A full gauge does not run: its clock is pinned to now.
Pinned(c, ts, max, now) ==
  IF c >= max THEN [c |-> max, ts |-> now] ELSE [c |-> c, ts |-> ts]

\* refillGauge: full on first contact, else the whole ticks since the clock, which
\* advances by whole ticks only.
Refilled(g, now, max) ==
  LET ticks == Ticks(g.ts, now)
  IN  IF now >= g.dies THEN [c |-> max, ts |-> now]
      ELSE Pinned(IF ticks > 0 THEN AtMost(g.c + ticks * Amount, max) ELSE g.c,
                  g.ts + ticks * Interval, max, now)

\* HSET and PEXPIRE.
Stored(r, now) == [c |-> r.c, ts |-> r.ts, dies |-> now + GaugeTtl]

\* (mutated) The consume writes the refilled charges with the clock from before the refill.
ConsumedStill(g, now, max) ==
  LET r == Refilled(g, now, max) IN Stored([c |-> r.c - 1, ts |-> g.ts], now)

\* The consume of place.lua, when Refilled(...).c >= 1.
Consumed(g, now, max) ==
  LET r == Refilled(g, now, max) IN Stored([r EXCEPT !.c = @ - 1], now)

\* (mutated) A grant goes above the maximum.
GrantedOver(g, now, max, n) ==
  LET r == Refilled(g, now, max) IN Stored([c |-> r.c + n, ts |-> r.ts], now)

\* grant.lua: refill, add, clamp.
Granted(g, now, max, n) ==
  LET r == Refilled(g, now, max)
  IN  Stored(Pinned(AtMost(r.c + n, max), r.ts, max, now), now)

\* When a viewer without a charge may place again.
CooldownUntil(r) == r.ts + Interval
=============================================================================
