-------------------------------- MODULE Rules --------------------------------
(***************************************************************************)
(* Rules that several services compute for themselves from the same facts: *)
(* tiers (packages/points-rules), the permission to place (canvasRules.ts) *)
(* and what the page shows of it (placeState.ts, cooldown.ts), the limit   *)
(* on messages (rateLimiter.ts) and the bonus of a viewer (gaugeBonus.ts). *)
(*                                                                         *)
(* Times are in units of the model's clock; an instant that may be absent  *)
(* is a set of at most one.                                                *)
(***************************************************************************)
EXTENDS PlaceScript, FiniteSets

CONSTANTS
  Second,  \* 1000 ms
  Day      \* 86 400 000 ms

ASSUME RulesAssumption == Second \in Nat \ {0} /\ Day \in Nat \ {0}

AtLeast(n, min) == IF n < min THEN min ELSE n
CeilDiv(a, b) == -((-a) \div b)
RoundDiv(a, b) == (2 * a + b) \div (2 * b)
-----------------------------------------------------------------------------
(* Points and tiers: cfg = [perPlacement, cost, cap].                       *)

PointsForPlacements(placements, cfg) == placements * cfg.perPlacement
EffectiveGaugeMax(base, bonus) == base + bonus
NextUpgradeCost(bonus, cfg) == cfg.cost * (bonus + 1)
TierThreshold(n, cfg) == (cfg.cost * n * (n + 1)) \div 2

\* One tier after the other, as far as the points reach.
TiersEarned(points, cfg) ==
  LET climb[n \in 0..cfg.cap] ==
        IF n < cfg.cap /\ TierThreshold(n + 1, cfg) <= points THEN climb[n + 1] ELSE n
  IN  climb[0]

\* A tier is a level to reach; one already reached is not granted again.
EvaluateTierClaim(stats, tier, cfg) ==
  LET Stays(ok, noop, reason) ==
        [ok |-> ok, noop |-> noop, reason |-> reason, newBonus |-> stats.gaugeMaxBonus, granted |-> 0]
  IN  IF tier < 1 THEN Stays(FALSE, FALSE, "invalid_config")
      ELSE IF tier > TiersEarned(stats.pointsEarned, cfg) THEN Stays(FALSE, FALSE, "tier_not_earned")
      ELSE IF tier <= stats.gaugeMaxBonus THEN Stays(FALSE, TRUE, "none")
      ELSE [ok |-> TRUE, noop |-> FALSE, reason |-> "none", newBonus |-> tier,
            granted |-> tier - stats.gaugeMaxBonus]

\* A number is [finite, halves]; the bonus is a whole number, 0 for garbage or no row.
NormalizeBonus(raw) == IF ~raw.finite \/ raw.halves <= 0 THEN 0 ELSE raw.halves \div 2
ResolvedBonus(row) == IF row = {} THEN 0 ELSE NormalizeBonus(CHOOSE raw \in row : TRUE)
-----------------------------------------------------------------------------
(* The scripts' answers on a gauge: refill-peek.lua, and the tail of the    *)
(* others.                                                                  *)
Reply(r, max) ==
  [charges |-> r.c, max |-> max, cooldownUntil |-> IF r.c < max THEN CooldownUntil(r) ELSE 0]

Peeked(g, now, max) ==
  IF now >= g.dies THEN [charges |-> max, max |-> max, cooldownUntil |-> 0]
  ELSE Reply(Refilled(g, now, max), max)
-----------------------------------------------------------------------------
(* May this user place now?                                                 *)

ValidEventWindow(start, end) == \A s \in start, e \in end : s < e

IsWithinEventWindow(canvas, now) ==
  (\A s \in canvas.start : now >= s) /\ (\A e \in canvas.end : now < e)

Denied(reason) == [allowed |-> FALSE, reason |-> reason]

\* The order decides what a viewer is told.
EvaluatePlacement(canvas, ctx) ==
  IF canvas.status = "archived" THEN Denied("canvas_archived")
  ELSE IF ctx.isBanned THEN Denied("banned")
  ELSE IF ~canvas.placementOpen THEN Denied("placement_closed")
  ELSE IF ~ctx.isOwner /\ ~IsWithinEventWindow(canvas, ctx.now) THEN Denied("outside_event_window")
  ELSE [allowed |-> TRUE, reason |-> "none"]
-----------------------------------------------------------------------------
(* What the page says of a canvas outside its event window.  midnights is   *)
(* the local calendar: a day may last an hour more or less than Day.        *)

StartOfLocalDay(t, midnights) ==
  CHOOSE m \in midnights : m <= t /\ \A k \in midnights : k <= t => k <= m

OpenDay(at, now, midnights) ==
  LET days == RoundDiv(StartOfLocalDay(at, midnights) - StartOfLocalDay(now, midnights), Day)
  IN  IF days <= 0 THEN "today" ELSE IF days = 1 THEN "tomorrow" ELSE "other"

WindowState(start, now, midnights) ==
  IF \E s \in start : now < s
  THEN LET opens == CHOOSE s \in start : TRUE
       IN  [kind |-> "notStarted", blocking |-> FALSE, until |-> opens,
            day |-> OpenDay(opens, now, midnights)]
  ELSE [kind |-> "ended", blocking |-> TRUE]
-----------------------------------------------------------------------------
(* The countdown and the arming of the next cells.                          *)

SecondsUntil(until, now) == AtLeast(CeilDiv(until - now, Second), 0)

ArmingCapacity(charges, onCooldown) == IF onCooldown THEN 1 ELSE AtLeast(charges, 0)

CooldownPhase(charges, staged) ==
  IF charges <= 0 THEN IF staged > 0 THEN "armed" ELSE "waiting"
  ELSE IF staged > 0 THEN "refilledArmed" ELSE "ready"

CooldownView(charges, until, now, staged) ==
  LET onCooldown == charges <= 0
      capacity   == ArmingCapacity(charges, onCooldown)
  IN  [phase |-> CooldownPhase(charges, staged), onCooldown |-> onCooldown,
       secondsUntilNext |-> IF onCooldown THEN SecondsUntil(until, now) ELSE 0,
       capacity |-> capacity, canArm |-> staged < capacity,
       readyToFire |-> charges > 0 /\ staged > 0]
-----------------------------------------------------------------------------
(* TokenBucket: tokens are counted in parts, Second parts to a message.     *)

NewBucket(capacity, now) == [tokens |-> capacity * Second, last |-> now]

\* A clock that did not move forward refills nothing.
BucketRefilled(b, capacity, rate, now) ==
  IF now <= b.last THEN b
  ELSE [tokens |-> AtMost(b.tokens + (now - b.last) * rate, capacity * Second), last |-> now]

TryRemove(b, capacity, rate, now) ==
  LET r == BucketRefilled(b, capacity, rate, now)
  IN  IF r.tokens < Second THEN [ok |-> FALSE, bucket |-> r]
      ELSE [ok |-> TRUE, bucket |-> [r EXCEPT !.tokens = @ - Second]]
-----------------------------------------------------------------------------
(* The queries that apply these rules: a row, a user and a profile are sets  *)
(* of at most one.                                                          *)

One(set) == CHOOSE e \in set : TRUE

\* An owner is not looked up in the bans of their own canvas.
CanPlace(canvas, user, bans, now) ==
  IF canvas = {} THEN Denied("canvas_not_found")
  ELSE LET isOwner == user = {One(canvas).ownerId}
       IN  EvaluatePlacement(One(canvas), [isOwner  |-> isOwner, now |-> now,
                                           isBanned |-> ~isOwner /\ user \cap bans # {}])

TierProgress(row, cfg) ==
  IF row = {} THEN [earned |-> TiersEarned(0, cfg), confirmed |-> 0]
  ELSE [earned |-> TiersEarned(One(row).pointsEarned, cfg), confirmed |-> One(row).gaugeMaxBonus]

\* Who painted what the cell shows: the durable placement of the highest version.  An erased
\* cell tells nothing, a painter without account, profile or name keeps the time.
PublicName(profile) == {IF profile.login # "" THEN profile.login ELSE profile.displayName} \ {""}

PixelAuthor(placements, x, y, profiles) ==
  LET here == {p \in placements : p.x = x /\ p.y = y}
      top  == {p \in here : \A q \in here : q.version <= p.version}
      Names(p) == UNION {PublicName(q) : q \in {r \in profiles : {r.userId} = p.userId}}
  IN  IF \A p \in top : p.color = 0 THEN [author |-> {}, ts |-> {}]
      ELSE [author |-> Names(One(top)), ts |-> {One(top).ts}]
-----------------------------------------------------------------------------
(* What the worker keeps on a canvas row for the gallery: an absent field    *)
(* is the empty set, a number is finite; the count of an update, which is   *)
(* rounded down, is in halves.                                              *)

Advances(old, new) == \E n \in new : \A o \in old : n > o

NoFields == [lastActivityAt |-> {}, viewerCount |-> {}, thumbnail |-> {}, thumbnailVersion |-> {}]

\* A field of the patch is empty when it does not change; free is the blob to delete.
PlanGalleryFieldsPatch(state, update) ==
  LET counted == {AtLeast(halves \div 2, 0) : halves \in update.viewerCount} \ state.viewerCount
      newer   == update.thumbnail # {} /\ Advances(state.thumbnailVersion, update.thumbnailVersion)
      IfNewer(field) == IF newer THEN field ELSE {}
  IN  [lastActivityAt |-> IF Advances(state.lastActivityAt, update.lastActivityAt)
                          THEN update.lastActivityAt ELSE {},
       viewerCount |-> counted,
       thumbnail |-> IfNewer(update.thumbnail),
       thumbnailVersion |-> IfNewer(update.thumbnailVersion),
       free |-> IfNewer(state.thumbnail \ update.thumbnail)]

\* The mutation: the row, the stored blobs and whether something changed.  The delete is
\* the last thing it does.
SetGalleryFields(row, blobs, update) ==
  LET patch == PlanGalleryFieldsPatch(row, update)
  IN  [row |-> [f \in DOMAIN row |-> IF patch[f] # {} THEN patch[f] ELSE row[f]],
       blobs |-> blobs \ patch.free,
       updated |-> \E f \in DOMAIN row : patch[f] # {}]

\* recordGalleryThumbnail: the picture is uploaded before the row is asked.
RecordGalleryThumbnail(row, blobs, blob, version) ==
  SetGalleryFields(row, blobs \cup {blob},
    [NoFields EXCEPT !.thumbnail = {blob}, !.thumbnailVersion = {version}])

\* viewersTick: every canvas is told the total of all canvases; a failed write is passed over.
ViewersTick(rows, total, failing) ==
  [slug \in DOMAIN rows |->
    IF slug \in failing THEN rows[slug]
    ELSE SetGalleryFields(rows[slug], {}, [NoFields EXCEPT !.viewerCount = {2 * total}]).row]

ActivityTimestamp(row) == IF row.lastActivityAt # {} THEN One(row.lastActivityAt) ELSE row.createdAt
SafeViewerCount(row) == IF row.viewerCount # {} THEN AtLeast(One(row.viewerCount), 0) ELSE 0

\* resolveGalleryOwner: a profile without Twitch id is not live.
TwitchLive(profile, live) == \E p \in profile : p.twitchId \cap live # {}

ToGalleryItem(row, profile, live) ==
  [slug |-> row.slug, title |-> row.title,
   streamer |-> IF profile = {} THEN row.slug ELSE One(profile).login,
   thumbnail |-> row.thumbnail, viewerCount |-> SafeViewerCount(row),
   lastActivityAt |-> ActivityTimestamp(row), twitchLive |-> TwitchLive(profile, live)]

\* The index by_status_activity, read backwards: a row without activity comes last, among
\* equals the latest created first.
Before(a, b) == \/ Advances(b.lastActivityAt, a.lastActivityAt)
                \/ a.lastActivityAt = b.lastActivityAt /\ a.createdAt > b.createdAt

ListHomeCanvases(rows, limit) ==
  LET active == {r \in rows : r.status = "active"}
  IN  {r \in active : Cardinality({q \in active : Before(q, r)}) < limit}
=============================================================================
