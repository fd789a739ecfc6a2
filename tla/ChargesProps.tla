---------------------------- MODULE ChargesProps ----------------------------
(***************************************************************************)
(* What the gauge, the tiers and their grants must guarantee (see Charges).*)
(***************************************************************************)
EXTENDS Charges, FiniteSetsExt

ChargesTypeOK ==
  /\ now \in Nat /\ gauge \in Gauge
  /\ spent \in Nat /\ granted \in Nat /\ accrued \in Nat /\ bonus \in 0..Cap
  /\ status \in [Sessions -> {"new", "up", "closed"}]
  /\ resolved \in [Sessions -> 0..Cap]
  /\ asks \subseteq Ask /\ posts \subseteq Post /\ jobs \subseteq Job

\* The budget of a viewer: what was placed and what is left never exceed the base, the
\* charges granted and what the clock has refilled.  Tabs, late answers, a raised or a
\* stale ceiling and an expired hash give nothing more (gauge.ts: "a viewer's first
\* placement starts at the max", then 1 charge an interval).
NeverOverspends ==
  Interval * (spent + gauge.c) <= Interval * (Base + granted) + Amount * gauge.ts

\* A placement that races a refresh is never over-budgeted (SessionGauge): nobody acts
\* on a bonus that Convex has not recorded, and no gauge holds more than it allows.
NeverAboveCeiling ==
  /\ gauge.c <= Base + bonus
  /\ \A s \in Sessions : resolved[s] <= bonus
  /\ \A j \in jobs : j.max <= Base + bonus

ChargesOf(S) == MapThenSumSet(LAMBDA x : x.charges, S)

\* Each tier hands out its charge at most once, however often and in whatever order it
\* is claimed, and however many tabs hear of it (tier-claim.md: "Idempotent by
\* (canvas, user, tierIndex)").
GrantedOncePerTier == granted + ChargesOf(posts) + ChargesOf(jobs) <= bonus

\* Nobody climbs without playing: the tier reached is earned by points, and the points by
\* placements ("the invariant confirmed <= earned can never be violated", points.ts).
EarnedByPlaying == accrued <= spent /\ (bonus > 0 => EarnedTier(bonus, accrued))

\* The refill is a function of what is stored and the time alone: storing it halfway
\* (grant.lua) or only looking (refill-peek.lua, "always agree") gives the same gauge.
PeekAgrees ==
  \A max \in Base..(Base + bonus), t \in now..MaxTime, u \in now..MaxTime :
    t <= u /\ u < gauge.dies =>
      LET halfway == Refilled(gauge, t, max)
      IN  Refilled([c |-> halfway.c, ts |-> halfway.ts, dies |-> gauge.dies], u, max)
            = Refilled(gauge, u, max)

\* A refusal tells the truth: a viewer refused now has a charge at the time the refusal
\* names and not before (place.lua: "when the viewer may place again").
CooldownIsHonest ==
  \A max \in Base..(Base + bonus) :
    LET r == Refilled(gauge, now, max) IN
      r.c < 1 =>
        /\ CooldownUntil(r) > now
        /\ \A t \in now..MaxTime : t < gauge.dies =>
             (Refilled(gauge, t, max).c >= 1 <=> t >= CooldownUntil(r))
=============================================================================
