--------------------------- MODULE ModerationProps ---------------------------
(***************************************************************************)
(* What the moderation pipeline guarantees although its decisions are read *)
(* from a log that lags, and applied after further awaits.                 *)
(***************************************************************************)
EXTENDS Moderation

IsRemoval(kind) == kind \in {"ban_wipe", "delete", "group"}
Answered(id) == audit[id].applied > 0 \/ audit[id].detail = "no_cells"
Overwrites(id) == {i \in DOMAIN writes : writes[i].by = id}

\* After a ban-and-wipe no pixel of its target is left showing, except one placed
\* after the log the wipe was decided from (planWipe, PREAUTH_prepareBanWipe).
WipeLeavesNothing ==
  \A id \in DOMAIN audit : audit[id].action = "ban_wipe" /\ Answered(id) =>
    \A c \in Cells :
      AuthorOfTop(Len(writes), c) = audit[id].target => Top(Len(writes), c) > audit[id].head

\* A removal overwrites either the very placement its overlay row records or one too
\* recent to be in the log it was decided from: nothing a moderator could have seen
\* in the durable log disappears unrecorded (runCellRewrite, flush then prepare).
BuriesOnlyUnseen ==
  \A i \in DOMAIN writes :
    writes[i].by # 0 /\ IsRemoval(audit[writes[i].by].action) =>
      \E o \in overlay :
        /\ o.action = writes[i].by /\ o.cell = writes[i].cell
        /\ \/ Top(i - 1, o.cell) = o.version
           \/ Top(i - 1, o.cell) > audit[o.action].head

\* However many moderators restore the same action, at once or again, each of its
\* cells is rewritten at most once (PREAUTH_prepareRestore marks rows restored in
\* the transaction that reads them).
RestoredOnce ==
  \A id \in DOMAIN audit, c \in Cells :
    Cardinality({i \in DOMAIN writes :
      /\ writes[i].cell = c /\ writes[i].by # 0
      /\ audit[writes[i].by].action = "restore" /\ audit[writes[i].by].ref = id}) <= 1

\* The version stamped on an overlay row is the one its own action reached, after the
\* cell was overwritten by it and above the version it removed (finalizeModerate).
StampIsOwn ==
  \A o \in overlay : o.overwrite # 0 =>
    /\ o.overwrite = audit[o.action].applied
    /\ \E i \in Overwrites(o.action) : writes[i].cell = o.cell /\ o.version < i /\ i <= o.overwrite

\* What a moderator is shown is what confirming would do to the same log: the ban preview
\* of a pixel counts the cells its author's wipe rewrites, the pixel among them, and the
\* group preview counts cells of that author only, each of which the delete rewrites; it
\* names those cells and no other, and leaves some out only when it says so
\* (previewModerationTargets, the "anti-divergence contract"; authorOfTop, groupCellsAt,
\* planWipe and planDelete each have skip rules of their own).
PreviewMatchesAction ==
  \A c \in Cells : AuthorAt(c) # NoUser =>
    LET wiped == PlanWipe(durable, AuthorAt(c))
        group == GroupCellsAt(durable, c)
        shown == PreviewTargets(c, "group")
    IN  /\ c \in group /\ \E p \in wiped : p.cell = c
        /\ PreviewTargets(c, "ban_wipe").count = BanBlastRadius(AuthorAt(c))
        /\ shown.count = Cardinality(group) /\ {d.cell : d \in shown.cells} \subseteq group
        /\ ~shown.truncated => {d.cell : d \in shown.cells} = group
        /\ \A p \in PlanDelete(durable, group) : \E q \in wiped : q.cell = p.cell /\ q.version = p.version

\* A ban that has been carried out is enforced: until it is lifted its target is
\* refused by place.lua ("push a ban/unban to the gateway so it (re)allows or rejects
\* the user's live placements immediately", moderation-internal.md).  The code only ever posts banned: false
\* (moderation.ts unban), so this does not hold and no run checks it.
BanReachesTheGate ==
  \A id \in DOMAIN audit :
    audit[id].action = "ban_wipe" /\ audit[id].detail # "dispatch_pending"
    /\ audit[id].target \in bans => audit[id].target \in redisBans
=============================================================================
