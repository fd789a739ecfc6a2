------------------------------- MODULE Charges -------------------------------
(***************************************************************************)
(* What one viewer may place on one canvas, and how playing raises it:     *)
(*                                                                         *)
(*   place.lua spends a charge --> the drain accrues points --> claimTier  *)
(*     raises gaugeMaxBonus --> the gateway refreshes each session's copy  *)
(*     of it and grants the tier's charges --> place.lua                   *)
(*                                                                         *)
(* A viewer has several sessions (tabs).  Each caches the bonus it was     *)
(* last told; the queries that tell it are answered and applied in any     *)
(* order, and fail.  There is one gateway process and one clock.  The op   *)
(* ids of place.lua, which make a replay cost nothing, are in module       *)
(* Placing.                                                                *)
(***************************************************************************)
EXTENDS PlaceScript

CONSTANTS
  Sessions,  \* WebSocket connections, each opened at most once
  Base,      \* base.gaugeMax
  Cap,       \* gaugeMaxBonusCap
  Cost,      \* baseUpgradeCost
  MaxTime    \* bound: the clock

\* The defaults are Base 20, Cap 30, Amount 1 per 30 s and 24 h: an idle gauge fills
\* long before it expires.
ASSUME ChargesAssumption ==
  /\ Base \in Nat \ {0} /\ Cap \in Nat /\ Cost \in Nat \ {0} /\ MaxTime \in Nat
  /\ Interval * (Base + Cap) <= Amount * GaugeTtl

VARIABLES
  now,      \* the clock
  gauge,    \* the gauge hash in Redis
  spent,    \* charges spent: placements written (history)
  granted,  \* charges granted (history)
  accrued,  \* userCanvasStats.pointsEarned
  bonus,    \* userCanvasStats.gaugeMaxBonus
  status,   \* each session: "new", "up" or "closed"
  resolved, \* SessionGauge.resolvedBonus
  asks,     \* getGaugeBonus queries in flight
  posts,    \* dispatchGaugeClaim posts in flight
  jobs      \* grantUserCharge calls in progress

stats    == <<accrued, bonus>>
sessions == <<status, resolved>>
work     == <<asks, posts, jobs>>
chargesVars == <<now, gauge, spent, granted, stats, sessions, work>>

Unanswered == -1

\* A query is known by its session and by the claim it serves, 0 for the connection's own.
Ask == [session: Sessions, tier: 0..Cap, answer: (0..Cap) \cup {Unanswered}]
Asking(s, k) == [session |-> s, tier |-> k, answer |-> Unanswered]

\* A claim in the gateway: the charges it grants, the sessions still to refresh, and
\* the highest ceiling seen so far.
Post == [tier: 1..Cap, charges: 1..Cap]
Job  == [tier: 1..Cap, charges: 1..Cap, todo: SUBSET Sessions, max: Nat]

ChargesInit ==
  /\ now = 0 /\ gauge = NoGauge
  /\ spent = 0 /\ granted = 0 /\ accrued = 0 /\ bonus = 0
  /\ status = [s \in Sessions |-> "new"]
  /\ resolved = [s \in Sessions |-> 0]
  /\ asks = {} /\ posts = {} /\ jobs = {}

Tick ==
  /\ now < MaxTime
  /\ now' = now + 1
  /\ UNCHANGED <<gauge, spent, granted, stats, sessions, work>>
-----------------------------------------------------------------------------
(***************************************************************************)
(* Sessions.                                                               *)
(***************************************************************************)

\* onConnection: the session starts at the base and asks for its bonus.
Open(s) ==
  /\ status[s] = "new"
  /\ status' = [status EXCEPT ![s] = "up"]
  /\ asks' = asks \cup {Asking(s, 0)}
  /\ UNCHANGED <<now, gauge, spent, granted, stats, resolved, posts, jobs>>

Close(s) ==
  /\ status[s] = "up"
  /\ status' = [status EXCEPT ![s] = "closed"]
  /\ UNCHANGED <<now, gauge, spent, granted, stats, resolved, work>>

\* Convex answers a getGaugeBonus.
Answer(a) ==
  /\ a.answer = Unanswered
  /\ asks' = (asks \ {a}) \cup {[a EXCEPT !.answer = bonus]}
  /\ UNCHANGED <<now, gauge, spent, granted, stats, sessions, posts, jobs>>

Larger(m, n) == IF m > n THEN m ELSE n

\* A claim goes on to its next session, with the ceiling this one now has.
Resume(a, b) ==
  jobs' = {IF j.tier = a.tier
             THEN [j EXCEPT !.todo = @ \ {a.session}, !.max = Larger(@, Base + b)]
             ELSE j : j \in jobs}

\* SessionGauge.refresh: the answer is cached, whatever was cached before.
Refresh(a) ==
  /\ a.answer # Unanswered
  /\ asks' = asks \ {a}
  /\ resolved' = [resolved EXCEPT ![a.session] = a.answer]
  /\ Resume(a, a.answer)
  /\ UNCHANGED <<now, gauge, spent, granted, stats, status, posts>>

\* The query fails: the last known value is kept.
RefreshFails(a) ==
  /\ asks' = asks \ {a}
  /\ Resume(a, resolved[a.session])
  /\ UNCHANGED <<now, gauge, spent, granted, stats, sessions, posts>>

Ceiling(s) == Base + resolved[s]

\* handlePlace and place.lua: with a charge, one pixel.  A cooldown stores nothing.
Place(s) ==
  /\ status[s] = "up"
  /\ Refilled(gauge, now, Ceiling(s)).c >= 1
  /\ gauge' = Consumed(gauge, now, Ceiling(s))
  /\ spent' = spent + 1
  /\ UNCHANGED <<now, granted, stats, sessions, work>>
-----------------------------------------------------------------------------
(***************************************************************************)
(* Convex.                                                                 *)
(***************************************************************************)

\* The drain credits a coloured placement (pointsPerPlacement is 1), once each.
Accrue ==
  /\ accrued < spent
  /\ accrued' = accrued + 1
  /\ UNCHANGED <<now, gauge, spent, granted, bonus, sessions, work>>

\* tierThreshold(k) <= points, k within the cap: tiersEarned reaches tier k.
EarnedTier(k, points) == k \in 1..Cap /\ Cost * k * (k + 1) <= 2 * points

\* claimTier: the index is the level to reach; one already reached is a no-op.
ClaimTier(k) ==
  /\ EarnedTier(k, accrued)
  /\ k > bonus
  /\ bonus' = k
  /\ posts' = posts \cup {[tier |-> k, charges |-> k - bonus]}
  /\ UNCHANGED <<now, gauge, spent, granted, accrued, sessions, asks, jobs>>

\* The dispatch is made once and may fail.
PostLost(p) ==
  /\ posts' = posts \ {p}
  /\ UNCHANGED <<now, gauge, spent, granted, stats, sessions, asks, jobs>>
-----------------------------------------------------------------------------
(***************************************************************************)
(* The gateway's side of a claim.                                          *)
(***************************************************************************)

\* handleGaugeClaim: without a session of the viewer there is nothing to do.
PostArrives(p) ==
  LET conns == {s \in Sessions : status[s] = "up"} IN
  /\ posts' = posts \ {p}
  /\ jobs' = IF conns = {} THEN jobs
             ELSE jobs \cup {[tier |-> p.tier, charges |-> p.charges,
                              todo |-> conns, max |-> Base]}
  /\ UNCHANGED <<now, gauge, spent, granted, stats, sessions, asks>>

Awaiting(j) == \E a \in asks : a.tier = j.tier

\* The loop over the sessions: one refresh at a time.
AskNext(j) ==
  /\ ~Awaiting(j)
  /\ \E s \in j.todo : asks' = asks \cup {Asking(s, j.tier)}
  /\ UNCHANGED <<now, gauge, spent, granted, stats, sessions, posts, jobs>>

\* (mutated) Once per session, not once per viewer.
GrantPerSession(j) ==
  /\ ~Awaiting(j)
  /\ gauge' = Granted(gauge, now, j.max, j.charges)
  /\ granted' = granted + j.charges
  /\ jobs' = IF j.todo = {} THEN jobs \ {j} ELSE jobs
  /\ UNCHANGED <<now, spent, stats, sessions, asks, posts>>

\* grant.lua, once, under the highest ceiling found.
Grant(j) ==
  /\ j.todo = {}
  /\ gauge' = Granted(gauge, now, j.max, j.charges)
  /\ granted' = granted + j.charges
  /\ jobs' = jobs \ {j}
  /\ UNCHANGED <<now, spent, stats, sessions, asks, posts>>

GrantFails(j) ==
  /\ j.todo = {}
  /\ jobs' = jobs \ {j}
  /\ UNCHANGED <<now, gauge, spent, granted, stats, sessions, asks, posts>>
-----------------------------------------------------------------------------
ChargesNext ==
  \/ Tick \/ Accrue
  \/ \E s \in Sessions : Open(s) \/ Close(s) \/ Place(s)
  \/ \E a \in asks : Answer(a) \/ Refresh(a) \/ RefreshFails(a)
  \/ \E k \in 1..Cap : ClaimTier(k)
  \/ \E p \in posts : PostLost(p) \/ PostArrives(p)
  \/ \E j \in jobs : AskNext(j) \/ Grant(j) \/ GrantFails(j)

ChargesSpec == ChargesInit /\ [][ChargesNext]_chargesVars
=============================================================================
