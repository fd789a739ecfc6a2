----------------------------- MODULE MCCharges -----------------------------
(* A small viewer for TLC, and the shared rules over small numbers. *)
EXTENDS ChargesProps, Rules, TLC

MCSymmetry == Permutations(Sessions)

Configs == [perPlacement: {1}, cost: 1..2, cap: 0..3]

\* A tier costs what its upgrades cost together, and the tiers earned are those that the
\* points pay one by one ("what makes tiersEarned a clean inverse", points-rules).
ASSUME TiersMatchTheirCosts ==
  \A cfg \in Configs, points \in 0..25 :
    LET total[n \in 0..4] == IF n = 0 THEN 0 ELSE total[n - 1] + NextUpgradeCost(n - 1, cfg)
        earned == TiersEarned(PointsForPlacements(points, cfg), cfg)
    IN  /\ \A n \in 0..4 : TierThreshold(n, cfg) = total[n]
        /\ earned <= cfg.cap /\ total[earned] <= points
        /\ earned < cfg.cap => total[earned + 1] > points

\* Claims that are repeated, skip a tier or come in the wrong order grant what they would
\* have granted in order ("no tier is double-counted either way", evaluateTierClaim).
ASSUME ClaimsInAnyOrder ==
  \A cfg \in Configs, points \in {0, 1, 3, 6, 12}, claims \in [1..3 -> 0..4] :
    \A bonus0 \in 0..TiersEarned(points, cfg) :
      LET after[n \in 0..3] ==
            IF n = 0 THEN [bonus |-> bonus0, granted |-> 0]
            ELSE LET d == EvaluateTierClaim([pointsEarned |-> points,
                                             gaugeMaxBonus |-> after[n - 1].bonus], claims[n], cfg)
                 IN  [bonus |-> d.newBonus, granted |-> after[n - 1].granted + d.granted]
          earned == {claims[i] : i \in 1..3} \cap 1..TiersEarned(points, cfg)
      IN  /\ after[3].bonus = Max(earned \cup {bonus0})
          /\ after[3].granted = after[3].bonus - bonus0

\* The bonus a session is told never takes the maximum below the base, whatever the answer
\* (normalizeBonus: "an absent/garbage value means 0").
ASSUME BonusNeverLowers ==
  \A finite \in BOOLEAN, halves \in -3..5 :
    LET row == {[finite |-> finite, halves |-> halves]}
    IN  /\ EffectiveGaugeMax(Base, ResolvedBonus(row)) >= Base
        /\ finite /\ halves >= 0 => 2 * ResolvedBonus(row) \in {halves, halves - 1}
        /\ ResolvedBonus({}) = 0

\* The gauge frame's countdown is honest: the next charge lands at the instant it names and
\* not before, and a full gauge names none (refill-peek.lua).
ASSUME PeekCountdownIsHonest ==
  \A c \in 0..2, ts \in 0..2, t \in 2..4, u \in 2..6 :
    LET g    == [c |-> c, ts |-> ts, dies |-> 8]
        seen == Peeked(g, t, 2)
    IN  IF seen.charges = 2 THEN seen.cooldownUntil = 0 /\ (u >= t => Peeked(g, u, 2) = seen)
        ELSE u >= t => (Peeked(g, u, 2).charges > seen.charges <=> u >= seen.cooldownUntil)

Instants == {{}} \cup {{t} : t \in 0..4}
Canvases == [status: {"active", "archived"}, placementOpen: BOOLEAN, start: Instants, end: Instants]
Contexts == [isOwner: BOOLEAN, isBanned: BOOLEAN, now: 0..5]

\* What refuses a viewer is what the page explains: outside the window, it says that the
\* canvas opens later exactly when it will; an owner is refused only for what refuses
\* everyone, or a ban (evaluatePlacement, windowState).
ASSUME DenialsAreExplained ==
  \A canvas \in {k \in Canvases : ValidEventWindow(k.start, k.end)}, ctx \in Contexts :
    LET d == EvaluatePlacement(canvas, ctx)
        w == WindowState(canvas.start, ctx.now, {0})
    IN  /\ d.reason = "outside_event_window" =>
             /\ w.kind = "notStarted" => \A s \in canvas.start : w.until = s /\ s > ctx.now
             /\ w.kind = "ended" => \E e \in canvas.end : e <= ctx.now
        /\ ctx.isOwner => d.reason # "outside_event_window"
        /\ d.allowed <=> /\ canvas.status = "active" /\ canvas.placementOpen /\ ~ctx.isBanned
                         /\ ctx.isOwner \/ IsWithinEventWindow(canvas, ctx.now)

\* Opening today or tomorrow is about the calendar, also on the days when the clocks change
\* (defaultFormatWhen: "not a fixed 24h offset").
ASSUME DaysAreTheCalendars ==
  \A d1 \in (Day - 1)..(Day + 1), d2 \in (Day - 1)..(Day + 1) :
    LET midnights == {0, d1, d1 + d2}
    IN  \A now0 \in 0..(3 * Day), at \in 0..(3 * Day) :
          now0 < at =>
            LET between == Cardinality({m \in midnights : now0 < m /\ m <= at})
            IN  OpenDay(at, now0, midnights) =
                  IF between = 0 THEN "today" ELSE IF between = 1 THEN "tomorrow" ELSE "other"

\* The cells that can be armed are those that can be fired next: one while the gauge is
\* empty, and none is fired then; the countdown ends when the charge is there (cooldown.ts).
ASSUME ArmingFollowsTheGauge ==
  \A charges \in -1..3, until \in 0..5, t \in 0..5, staged \in 0..4 :
    LET v == CooldownView(charges, until, t, staged)
    IN  /\ v.readyToFire => ~v.onCooldown /\ v.phase = "refilledArmed"
        /\ v.onCooldown => (v.canArm <=> v.phase = "waiting")
        /\ ~v.onCooldown => (v.canArm <=> staged < charges)
        /\ v.onCooldown => (v.secondsUntilNext = 0 <=> until <= t)
        /\ v.secondsUntilNext > 0 => /\ v.secondsUntilNext * Second >= until - t
                                     /\ (v.secondsUntilNext - 1) * Second < until - t

\* However messages are timed, and even when the clock goes back, a connection gets through
\* no more than the burst and the rate together, and a patient one always does (TokenBucket).
ASSUME BucketLimits ==
  \A capacity \in 1..2, rate \in 1..2, times \in [1..4 -> 0..4] :
    LET run[n \in 0..4] ==
          IF n = 0 THEN [ok |-> 0, last |-> TRUE, bucket |-> NewBucket(capacity, 0)]
          ELSE LET r == TryRemove(run[n - 1].bucket, capacity, rate, times[n])
               IN  [ok |-> run[n - 1].ok + (IF r.ok THEN 1 ELSE 0), last |-> r.ok, bucket |-> r.bucket]
    IN  /\ run[4].ok <= capacity + (rate * Max({times[i] : i \in 1..4})) \div Second
        /\ \A n \in 1..4 : (times[n] - run[n - 1].bucket.last) * rate >= Second => run[n].last

Playing == [status: {"active"}, placementOpen: BOOLEAN, start: Instants, end: {{}}, ownerId: {"ann"}]

\* The contract of placing is the rule applied to the caller: nobody is banned from their own
\* canvas, and a visitor who is not signed in is neither owner nor banned (canPlace).
ASSUME ContractFollowsTheCaller ==
  \A canvas \in Playing, user \in {{}, {"ann"}, {"bob"}}, bans \in SUBSET {"ann", "bob"}, t \in 0..5 :
    LET d == CanPlace({canvas}, user, bans, t)
    IN  /\ d.reason = "banned" <=> user = {"bob"} /\ "bob" \in bans
        /\ user = {"ann"} => (d.allowed <=> canvas.placementOpen)
        /\ ~CanPlace({}, user, bans, t).allowed

Rows == [x: {0}, y: 0..1, color: 0..1, version: 1..3, userId: {{}, {"ann"}, {"bob"}}, ts: {7}]

\* The panel names a person only when the last write of that cell is theirs, and nobody for a
\* cell that shows nothing (pixelAuthor).
ASSUME PanelNamesThePainter ==
  \A a \in Rows, b \in Rows, login \in {"", "ann_tv"}, displayName \in {"", "Ann"} :
    a.version # b.version =>
    LET seen == PixelAuthor({a, b}, 0, 0, {[userId |-> "ann", login |-> login, displayName |-> displayName]})
        last == {p \in {a, b} : p.y = 0 /\ \A q \in {a, b} : q.y = 0 => q.version <= p.version}
    IN  /\ seen.author # {} <=> /\ \E p \in last : p.color # 0 /\ p.userId = {"ann"}
                                /\ {login, displayName} # {""}
        /\ seen.author \subseteq {login, displayName} \ {""}
        /\ seen.ts # {} <=> \E p \in last : p.color # 0

\* The worker's writes of a canvas row, in any order and repeated: activity and picture are those
\* of the newest, and the blob of every earlier picture is gone.  An upload that comes too late to
\* be shown stays in the storage ("frees the superseded blob", recordGalleryThumbnail).
Pictures == [version: 1..3, at: 1..3]
ASSUME GalleryOnlyAdvances ==
  \A sends \in [1..3 -> Pictures] :
    LET after[n \in 0..3] ==
          IF n = 0 THEN [row |-> NoFields, blobs |-> {}, updated |-> FALSE]
          ELSE LET seen == SetGalleryFields(after[n - 1].row, after[n - 1].blobs,
                             [NoFields EXCEPT !.lastActivityAt = {sends[n].at}])
               IN  RecordGalleryThumbnail(seen.row, seen.blobs, n, sends[n].version)
        best == Max({sends[i].version : i \in 1..3})
        first == Min({i \in 1..3 : sends[i].version = best})
        late == {i \in 1..3 : \E j \in 1..(i - 1) : sends[j].version >= sends[i].version}
    IN  /\ after[3].row.lastActivityAt = {Max({sends[i].at : i \in 1..3})}
        /\ after[3].row.thumbnailVersion = {best} /\ after[3].row.thumbnail = {first}
        /\ after[3].blobs = {first} \cup late

\* The count of viewers is never negative, whatever was sent, and a second tick with the same
\* count writes nothing (viewersTick, safeViewerCount).
ASSUME ViewersAreALevel ==
  \A halves \in -3..5, total \in 0..2, failing \in SUBSET {"a", "b"} :
    LET r    == SetGalleryFields(NoFields, {}, [NoFields EXCEPT !.viewerCount = {halves}])
        rows == ViewersTick([slug \in {"a", "b"} |-> r.row], total, failing)
    IN  /\ SafeViewerCount(r.row) >= 0
        /\ \A slug \in {"a", "b"} \ failing :
             /\ SafeViewerCount(rows[slug]) = total
             /\ ~SetGalleryFields(rows[slug], {}, [NoFields EXCEPT !.viewerCount = {2 * total}]).updated

\* The feed leaves out no canvas that was active later than one it shows, which takes that
\* every canvas is created with an activity; a card is live only for a known channel
\* (listHomeCanvases, toGalleryItem).
Cards == {[NoFields EXCEPT !.lastActivityAt = {at}] @@
            [slug |-> slug, title |-> "t", createdAt |-> created, status |-> state] :
           at \in 1..3, slug \in {"a", "b"}, created \in 0..1, state \in {"active", "archived"}}
Profiles == {{}, {[login |-> "l", twitchId |-> {}]}, {[login |-> "l", twitchId |-> {9}]}}

ASSUME FeedIsTheMostActive ==
  \A a \in Cards, b \in Cards, limit \in 1..2 :
    LET feed == ListHomeCanvases({a, b}, limit)
    IN  /\ \A r \in feed : r.status = "active"
        /\ a.createdAt # b.createdAt => Cardinality(feed) <= limit
        /\ \A r \in feed, q \in {a, b} \ feed :
             q.status = "active" => ActivityTimestamp(q) <= ActivityTimestamp(r)
        /\ \A profile \in Profiles :
             ToGalleryItem(a, profile, {9}).twitchLive <=> \E p \in profile : p.twitchId = {9}
=============================================================================
