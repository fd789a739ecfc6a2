----------------------------- MODULE Moderation -----------------------------
(***************************************************************************)
(* The moderation pipeline of one canvas: Convex decides and journals      *)
(* (apps/convex/convex/moderation.ts, lib/moderation.ts), the gateway      *)
(* applies (apps/gateway/src/moderation.ts, internalRoutes.ts).            *)
(*                                                                         *)
(* A moderation action is a Convex action: a chain of transactions and     *)
(* HTTP posts with everything else running in between.  One step here is   *)
(* one transaction, one Redis script or one post.  The version of a write  *)
(* is its index in `writes`; the durable `placements` log is the prefix    *)
(* `durable` of it, and the bitmap shows each cell's newest write: module  *)
(* Drain checks both.                                                      *)
(***************************************************************************)
EXTENDS Integers, Sequences, FiniteSets

CONSTANTS
  Viewers,      \* signed-in placers
  NoUser,       \* the empty userId of a moderation overwrite
  Owner,        \* the canvas owner
  Delegates,    \* accounts Twitch may list as channel moderators
  Cells,        \* cells in row-major order, as numbers
  Colors,       \* palette indexes; 0 is the empty cell
  GroupWindow,  \* GROUP_WINDOW_MS, in clock ticks
  PreviewMax,   \* MOD_PREVIEW_MAX_CELLS: the cells a preview lists
  Scenarios     \* bounds: the kinds of action used together, and how many placements,
                \* journaled actions, clock ticks and failed posts with them

Actors == {Owner} \cup Delegates
Rewrites == {"ban_wipe", "delete", "group", "restore"}

ASSUME ModerationAssumption ==
  /\ NoUser \notin Viewers /\ Owner \notin Delegates
  /\ Cells \subseteq Nat /\ IsFiniteSet(Cells) /\ Colors \subseteq Nat /\ 0 \in Colors
  /\ GroupWindow \in Nat /\ PreviewMax \in Nat \ {0}
  /\ Scenarios \subseteq [kinds: SUBSET (Rewrites \cup {"unban", "freeze", "open", "sync"}),
                          placed: Nat, actions: Nat, time: Nat, faults: Nat]

VARIABLES
  scenario,     \* the member of Scenarios explored; never changes
  writes,       \* every committed write in version order: the Redis stream ever produced
  durable,      \* how many of them the worker has drained into `placements`
  bans,         \* Convex `bans`: the users with an active row
  redisBans,    \* Redis canvas:{id}:bans
  open,         \* Convex canvases.placementOpen
  frozen,       \* Redis canvas:{id}:frozen is set
  audit,        \* Convex auditLog, in insertion order
  overlay,      \* Convex pixelModeration rows
  twitch,       \* the channel's moderators, at Twitch
  roster,       \* Convex canvasModerators: the active rows
  jobs,         \* the action each moderator is in
  now,          \* wall clock
  faults        \* failed posts and lost answers so far

logVars == <<scenario, writes, durable, now>>
gateVars == <<redisBans, frozen>>
banVars == <<bans, open>>
modVars == <<logVars, gateVars, banVars, audit, overlay, twitch, roster, jobs, faults>>

Idle == [pc |-> "idle", kind |-> "none", user |-> NoUser, cells |-> {}, ref |-> 0,
         flag |-> FALSE, audit |-> 0, batch |-> <<>>, version |-> 0, mods |-> {}]

ModInit ==
  /\ scenario \in Scenarios
  /\ writes = <<>> /\ durable = 0 /\ now = 0
  /\ bans = {} /\ redisBans = {}
  /\ open = TRUE /\ frozen = FALSE
  /\ audit = <<>> /\ overlay = {}
  /\ twitch \in SUBSET Delegates
  /\ roster = {}
  /\ jobs = [a \in Actors |-> Idle]
  /\ faults = 0
-----------------------------------------------------------------------------
(***************************************************************************)
(* What the durable log says (lib/moderation.ts).  `n` is the length of    *)
(* the log that is read; a stack is the set of versions on one cell.       *)
(***************************************************************************)
Stack(n, c) == {i \in 1..n : writes[i].cell = c}
Newest(S) == CHOOSE i \in S : \A j \in S : j <= i

\* The version on top of a cell, 0 when nothing was ever placed there.
Top(n, c) == IF Stack(n, c) = {} THEN 0 ELSE Newest(Stack(n, c))
Shown(n, c) == Top(n, c) # 0 /\ writes[Top(n, c)].color # 0
ColorOf(S) == IF S = {} THEN 0 ELSE writes[Newest(S)].color

Plan(n, c, underneath) ==
  [cell |-> c, user |-> writes[Top(n, c)].user, color |-> writes[Top(n, c)].color,
   version |-> Top(n, c), underneath |-> underneath]

\* (mutated) Cells are taken by any placement of the user, not by the top one.
PlanWipeAny(n, u) ==
  {Plan(n, c, ColorOf({i \in Stack(n, c) : writes[i].user # u})) :
     c \in {d \in Cells : Shown(n, d) /\ \A i \in Stack(n, d) : writes[i].user = u}}

\* Every cell the user tops, down to the newest placement of somebody else.
PlanWipe(n, u) ==
  {Plan(n, c, ColorOf({i \in Stack(n, c) : writes[i].user # u})) :
     c \in {d \in Cells : Shown(n, d) /\ writes[Top(n, d)].user = u}}

\* (mutated) The first placement of the cell is taken for its top.
PlanDeleteBottom(n, targets) ==
  {[Plan(n, c, 0) EXCEPT !.version = CHOOSE i \in Stack(n, c) : \A j \in Stack(n, c) : i <= j] :
     c \in {d \in targets : Shown(n, d)}}

\* The targeted cells that show something, each down to the placement just below.
PlanDelete(n, targets) ==
  {Plan(n, c, ColorOf(Stack(n, c) \ {Top(n, c)})) : c \in {d \in targets : Shown(n, d)}}

\* The author a ban would target at a cell; NoUser when there is none.
AuthorOfTop(n, c) == IF Shown(n, c) THEN writes[Top(n, c)].user ELSE NoUser

Near(i, j) == writes[i].ts - writes[j].ts \in -GroupWindow..GroupWindow

\* (mutated) The batch of the author is taken from every placement, visible or not.
GroupCellsBuried(n, anchor) ==
  LET u == AuthorOfTop(n, anchor)
  IN  IF u = NoUser THEN {}
      ELSE {c \in Cells : \E i \in Stack(n, c) :
              writes[i].user = u /\ writes[i].color # 0 /\ Near(i, Top(n, anchor))}

\* The cells the anchor's author tops since about the same time.
GroupCellsAt(n, anchor) ==
  LET u == AuthorOfTop(n, anchor)
  IN  IF u = NoUser THEN {}
      ELSE {c \in Cells : Shown(n, c) /\ writes[Top(n, c)].user = u /\ Near(Top(n, c), Top(n, anchor))}

\* planPreview: exact count, and the visible colours of the first cells; the bounding box
\* is left out.
FirstPlans(plans) ==
  {p \in plans : Cardinality({q \in plans : q.cell < p.cell}) < PreviewMax}
PlanPreview(plans) ==
  [count |-> Cardinality(plans), truncated |-> Cardinality(plans) > PreviewMax,
   cells |-> {[cell |-> p.cell, color |-> p.color] : p \in FirstPlans(plans)}]

\* What the dashboard shows before a moderator confirms, from the log as flushed so far.
AuthorAt(c) == AuthorOfTop(durable, c)
BanBlastRadius(u) == Cardinality(PlanWipe(durable, u))
PreviewTargets(anchor, kind) ==
  PlanPreview(IF kind = "group" THEN PlanDelete(durable, GroupCellsAt(durable, anchor))
              ELSE IF AuthorAt(anchor) = NoUser THEN {}
              ELSE PlanWipe(durable, AuthorAt(anchor)))

\* removalCells: the colours the gateway is asked to write.
RemovalCells(plans) ==
  [c \in {p.cell : p \in plans} |-> (CHOOSE p \in plans : p.cell = c).underneath]

\* resolveModAuthority: the owner, or an active moderator row.
Authorised(a) == a = Owner \/ a \in roster
-----------------------------------------------------------------------------
(***************************************************************************)
(* The canvas, its worker, Twitch.                                         *)
(***************************************************************************)
Row(c, color, u, action) == [cell |-> c, color |-> color, user |-> u, ts |-> now, by |-> action]
Placed == {i \in DOMAIN writes : writes[i].by = 0}

\* place.lua: refused for a banned user or on a frozen canvas.
Place(u, c, color) ==
  /\ Cardinality(Placed) < scenario.placed
  /\ u \notin redisBans /\ ~frozen
  /\ writes' = Append(writes, Row(c, color, u, 0))
  /\ UNCHANGED <<scenario, durable, now, gateVars, banVars, audit, overlay, twitch, roster, jobs, faults>>

\* The worker drains, on its timer or on a flush nudge.
Drain ==
  /\ durable < Len(writes)
  /\ durable' \in durable + 1..Len(writes)
  /\ UNCHANGED <<scenario, writes, now, gateVars, banVars, audit, overlay, twitch, roster, jobs, faults>>

Tick ==
  /\ now < scenario.time /\ now' = now + 1
  /\ UNCHANGED <<scenario, writes, durable, gateVars, banVars, audit, overlay, twitch, roster, jobs, faults>>

\* The streamer changes the moderators of the channel.
TwitchEdits ==
  /\ "sync" \in scenario.kinds
  /\ twitch' \in SUBSET Delegates \ {twitch}
  /\ UNCHANGED <<logVars, gateVars, banVars, audit, overlay, roster, jobs, faults>>
-----------------------------------------------------------------------------
(***************************************************************************)
(* A rewriting action: meta and flush, prepare, dispatch, finalize.        *)
(***************************************************************************)
Set(a, job) == jobs' = [jobs EXCEPT ![a] = job]
Room == Len(audit) < scenario.actions

\* runCellRewrite up to its second await: PREAUTH_getActionMeta, then forceFlush, a post
\* whose failure is swallowed and which is answered before the worker has drained
\* anything (awaited: false): Drain may or may not happen before the next step.
StartRewrite(a, kind, user, cells, ref) ==
  /\ kind \in scenario.kinds /\ jobs[a].pc = "idle" /\ Room
  /\ Authorised(a)
  /\ Set(a, [Idle EXCEPT !.pc = "prepare", !.kind = kind, !.user = user, !.cells = cells, !.ref = ref])
  /\ UNCHANGED <<logVars, gateVars, banVars, audit, overlay, twitch, roster, faults>>

BanAndWipe(a, u) == StartRewrite(a, "ban_wipe", u, {}, 0)
DeletePixels(a, cs) == StartRewrite(a, "delete", NoUser, cs, 0)
DeleteGroupAt(a, c) == StartRewrite(a, "group", NoUser, {c}, 0)
Restore(a, action) == StartRewrite(a, "restore", NoUser, {}, action)

\* writeAudit: head and applied are history, the log length the decision was read
\* from and the last version the action wrote.
AuditRow(a, job, n) ==
  [action |-> job.kind, actor |-> a, target |-> job.user, ref |-> job.ref, cells |-> n,
   detail |-> "dispatch_pending", head |-> durable, applied |-> 0]

Removals(plans, id) ==
  {[action |-> id, cell |-> p.cell, user |-> p.user, color |-> p.color, version |-> p.version,
    underneath |-> p.underneath, overwrite |-> 0, restored |-> 0] : p \in plans}

\* One transaction that checks authority again, journals the action and records what
\* it removes; the cells go to the gateway next.
Prepare(a, kind, plans) ==
  LET job == jobs[a]
  IN  /\ job.pc = "prepare" /\ job.kind = kind
      /\ Authorised(a)
      /\ audit' = Append(audit, AuditRow(a, job, Cardinality(plans)))
      /\ overlay' = overlay \cup Removals(plans, Len(audit) + 1)
      /\ Set(a, [job EXCEPT !.pc = "dispatch", !.audit = Len(audit) + 1, !.batch = RemovalCells(plans)])
      /\ UNCHANGED <<logVars, gateVars, open, twitch, roster, faults>>

\* PREAUTH_prepareBanWipe: the ban is upserted in the same transaction.
PrepareBanWipe(a) ==
  /\ Prepare(a, "ban_wipe", PlanWipe(durable, jobs[a].user))
  /\ bans' = bans \cup {jobs[a].user}

\* PREAUTH_prepareDelete: the cells the moderator pointed at.
PrepareDelete(a) ==
  /\ Prepare(a, "delete", PlanDelete(durable, jobs[a].cells))
  /\ UNCHANGED bans

\* PREAUTH_prepareGroupDelete: the batch is resolved from the log, after the flush.
PrepareGroupDelete(a) ==
  /\ Prepare(a, "group", PlanDelete(durable, UNION {GroupCellsAt(durable, c) : c \in jobs[a].cells}))
  /\ UNCHANGED bans

\* (mutated) Rows already restored are restored again.
PrepareRestoreAll(a) ==
  LET job == jobs[a]
      id == Len(audit) + 1
      pending == {o \in overlay : o.action = job.ref}
  IN  /\ job.pc = "prepare" /\ job.kind = "restore"
      /\ Authorised(a)
      /\ audit' = Append(audit, AuditRow(a, job, Cardinality(pending)))
      /\ overlay' = {IF o \in pending THEN [o EXCEPT !.restored = id] ELSE o : o \in overlay}
      /\ Set(a, [job EXCEPT !.pc = "dispatch", !.audit = id,
           !.batch = [c \in {o.cell : o \in pending} |-> (CHOOSE o \in pending : o.cell = c).color]])
      /\ UNCHANGED <<logVars, gateVars, banVars, twitch, roster, faults>>

\* PREAUTH_prepareRestore: the action's rows not restored yet, marked restored now.
PrepareRestore(a) ==
  LET job == jobs[a]
      id == Len(audit) + 1
      pending == {o \in overlay : o.action = job.ref /\ o.restored = 0}
  IN  /\ job.pc = "prepare" /\ job.kind = "restore"
      /\ Authorised(a)
      /\ audit' = Append(audit, AuditRow(a, job, Cardinality(pending)))
      /\ overlay' = {IF o \in pending THEN [o EXCEPT !.restored = id] ELSE o : o \in overlay}
      /\ Set(a, [job EXCEPT !.pc = "dispatch", !.audit = id,
           !.batch = [c \in {o.cell : o \in pending} |-> (CHOOSE o \in pending : o.cell = c).color]])
      /\ UNCHANGED <<logVars, gateVars, banVars, twitch, roster, faults>>

\* The prepare mutation of somebody who lost authority since the first step throws.
PrepareDenied(a) ==
  /\ jobs[a].pc = "prepare" /\ ~Authorised(a)
  /\ Set(a, Idle)
  /\ UNCHANGED <<logVars, gateVars, banVars, audit, overlay, twitch, roster, faults>>

\* sortPlans: the cells of a batch go out row by row.
RowMajor(cells) ==
  CHOOSE cs \in [1..Cardinality(cells) -> cells] : \A i, j \in DOMAIN cs : i < j => cs[i] < cs[j]

Batch(job) ==
  LET cs == RowMajor(DOMAIN job.batch)
  IN  [i \in 1..Len(cs) |-> Row(cs[i], job.batch[cs[i]], NoUser, job.audit)]

\* handleModerate: moderate.lua overwrites the cells in one script, each with a version
\* and a stream record of the system user.  An empty batch is not posted.
Dispatch(a) ==
  LET job == jobs[a]
  IN  /\ job.pc = "dispatch" /\ job.kind \in Rewrites
      /\ writes' = writes \o Batch(job)
      /\ audit' = IF DOMAIN job.batch = {} THEN audit
                  ELSE [audit EXCEPT ![job.audit].applied = Len(writes')]
      /\ \/ Set(a, [job EXCEPT !.pc = "finalize", !.version = IF DOMAIN job.batch = {} THEN 0 ELSE Len(writes')])
            /\ UNCHANGED faults
         \/ DOMAIN job.batch # {} /\ faults < scenario.faults /\ faults' = faults + 1
            /\ Set(a, Idle)
      /\ UNCHANGED <<scenario, durable, now, gateVars, banVars, overlay, twitch, roster>>

\* The post never reaches the script: gatewayPost throws and the action ends, its
\* audit row still pending.
DispatchFails(a) ==
  /\ jobs[a].pc = "dispatch" /\ DOMAIN jobs[a].batch # {} /\ jobs[a].kind \in Rewrites
  /\ faults < scenario.faults /\ faults' = faults + 1
  /\ Set(a, Idle)
  /\ UNCHANGED <<logVars, gateVars, banVars, audit, overlay, twitch, roster>>

Outcome(job) ==
  IF job.kind \in Rewrites /\ DOMAIN job.batch = {} THEN "no_cells" ELSE "dispatched"

\* (mutated) The stamp goes to every row of the cells, whichever action removed them.
FinalizeByCell(a) ==
  LET job == jobs[a]
  IN  /\ job.pc = "finalize"
      /\ audit' = [audit EXCEPT ![job.audit].detail = Outcome(job)]
      /\ overlay' = {IF job.version # 0 /\ o.cell \in DOMAIN job.batch
                       THEN [o EXCEPT !.overwrite = job.version] ELSE o : o \in overlay}
      /\ Set(a, Idle)
      /\ UNCHANGED <<logVars, gateVars, banVars, twitch, roster, faults>>

\* UNAUTH_finalizeModerate: the outcome on the audit row, the version on its removals.
Finalize(a) ==
  LET job == jobs[a]
  IN  /\ job.pc = "finalize"
      /\ audit' = [audit EXCEPT ![job.audit].detail = Outcome(job)]
      /\ overlay' = {IF job.version # 0 /\ o.action = job.audit
                       THEN [o EXCEPT !.overwrite = job.version] ELSE o : o \in overlay}
      /\ Set(a, Idle)
      /\ UNCHANGED <<logVars, gateVars, banVars, twitch, roster, faults>>
-----------------------------------------------------------------------------
(***************************************************************************)
(* The gates: unban, freeze, and the owner's own placement switch.         *)
(***************************************************************************)
\* PREAUTH_unbanMut, then the post to /internal/ban.
Unban(a, u) ==
  /\ "unban" \in scenario.kinds /\ jobs[a].pc = "idle" /\ Room
  /\ Authorised(a)
  /\ bans' = bans \ {u}
  /\ audit' = Append(audit, AuditRow(a, [Idle EXCEPT !.kind = "unban", !.user = u], 0))
  /\ Set(a, [Idle EXCEPT !.pc = "gate", !.kind = "unban", !.user = u, !.audit = Len(audit) + 1])
  /\ UNCHANGED <<logVars, gateVars, open, overlay, twitch, roster, faults>>

\* PREAUTH_prepareFreeze patches the durable mirror, then the post to /internal/freeze.
Freeze(a, on) ==
  /\ "freeze" \in scenario.kinds /\ jobs[a].pc = "idle" /\ Room
  /\ Authorised(a)
  /\ open' = ~on
  /\ audit' = Append(audit, AuditRow(a, [Idle EXCEPT !.kind = "freeze"], 0))
  /\ Set(a, [Idle EXCEPT !.pc = "gate", !.kind = "freeze", !.flag = on, !.audit = Len(audit) + 1])
  /\ UNCHANGED <<logVars, gateVars, bans, overlay, twitch, roster, faults>>

\* handleBan with banned: false.  Nothing posts banned: true.
PostUnban(a) ==
  /\ jobs[a].pc = "gate" /\ jobs[a].kind = "unban"
  /\ redisBans' = redisBans \ {jobs[a].user}
  /\ Set(a, [jobs[a] EXCEPT !.pc = "finalize"])
  /\ UNCHANGED <<logVars, frozen, banVars, audit, overlay, twitch, roster, faults>>

\* handleFreeze.
PostFreeze(a) ==
  /\ jobs[a].pc = "gate" /\ jobs[a].kind = "freeze"
  /\ frozen' = jobs[a].flag
  /\ Set(a, [jobs[a] EXCEPT !.pc = "finalize"])
  /\ UNCHANGED <<logVars, redisBans, banVars, audit, overlay, twitch, roster, faults>>

\* The post throws: the action ends with its audit row still pending.
PostGateFails(a) ==
  /\ jobs[a].pc = "gate" /\ faults < scenario.faults /\ faults' = faults + 1
  /\ Set(a, Idle)
  /\ UNCHANGED <<logVars, gateVars, banVars, audit, overlay, twitch, roster>>

\* setPlacementOpen: the owner patches the mirror alone.
SetPlacementOpen(on) ==
  /\ "open" \in scenario.kinds /\ open # on
  /\ open' = on
  /\ UNCHANGED <<logVars, gateVars, bans, audit, overlay, twitch, roster, jobs, faults>>

\* syncTwitchMods: authority and broadcaster first, then the roster is fetched.
StartSync(a) ==
  /\ "sync" \in scenario.kinds /\ jobs[a].pc = "idle" /\ Room
  /\ Authorised(a)
  /\ Set(a, [Idle EXCEPT !.pc = "sync", !.kind = "sync", !.mods = twitch])
  /\ UNCHANGED <<logVars, gateVars, banVars, audit, overlay, twitch, roster, faults>>

\* PREAUTH_applyTwitchSync: the fetched moderators upserted active, the others
\* deactivated (no code writes an owner-granted row, so all come from a sync).
ApplySync(a) ==
  /\ jobs[a].pc = "sync" /\ Room
  /\ roster' = jobs[a].mods
  /\ audit' = Append(audit, AuditRow(a, jobs[a], 0))
  /\ Set(a, Idle)
  /\ UNCHANGED <<logVars, gateVars, banVars, overlay, twitch, faults>>
-----------------------------------------------------------------------------
ModNext ==
  \/ \E u \in Viewers, c \in Cells, color \in Colors : Place(u, c, color)
  \/ Drain \/ Tick \/ TwitchEdits
  \/ \E a \in Actors :
       \/ \E u \in Viewers : BanAndWipe(a, u)
       \/ \E cs \in SUBSET Cells \ {{}} : DeletePixels(a, cs)
       \/ \E c \in Cells : DeleteGroupAt(a, c)
       \/ \E action \in DOMAIN audit : Restore(a, action)
       \/ PrepareBanWipe(a) \/ PrepareDelete(a) \/ PrepareGroupDelete(a) \/ PrepareRestore(a) \/ PrepareDenied(a)
       \/ Dispatch(a) \/ DispatchFails(a) \/ Finalize(a)
       \/ \E u \in Viewers : Unban(a, u)
       \/ \E on \in BOOLEAN : Freeze(a, on)
       \/ PostUnban(a) \/ PostFreeze(a) \/ PostGateFails(a)
       \/ StartSync(a) \/ ApplySync(a)
  \/ \E on \in BOOLEAN : SetPlacementOpen(on)

ModSpec == ModInit /\ [][ModNext]_modVars
=============================================================================
