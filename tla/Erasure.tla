------------------------------ MODULE Erasure -------------------------------
(* Account deletion (account.ts, lib/accountPurge.ts, gateway purgeUser.ts)   *)
(* against everything that names a user while it runs: the user's own open    *)
(* connections, the worker draining the stream late, moderators, the live     *)
(* cron, and the owner's own canvases.  deleteMyAccount is a Convex action:   *)
(* every mutation and every call it makes is a step of its own, it may die    *)
(* between two of them, and only the user's next call starts it again.        *)
EXTENDS TwitchLive, FiniteSetsExt

CONSTANTS
    Anon,           \* no userId, or ANONYMIZED_ACTOR
    BatchSize,      \* BATCH
    MaxCanvases,    \* bound: rows of the canvases table
    Populations     \* the initial contents the model starts from

ASSUME ErasureAssumption ==
    /\ Anon \notin Users /\ BatchSize \in Nat \ {0}
    /\ \A p \in Populations :
        /\ p.profile \in [Users -> SUBSET [login : Logins \cup {NoLogin}]]
        /\ p.canvases \in Seq([owner : Users, status : {"active", "archived"}, minted : BOOLEAN,
                               slug : [login : Logins, canvas : BOOLEAN, n : Nat]])
        /\ \A c, d \in DOMAIN p.canvases : c # d =>
              /\ p.canvases[c].slug # p.canvases[d].slug
              /\ p.canvases[c].owner = p.canvases[d].owner =>
                    "archived" \in {p.canvases[c].status, p.canvases[d].status}
        /\ p.conn \subseteq Users /\ IsFiniteSet(p.rows)
        /\ p.rows \subseteq [canvas : DOMAIN p.canvases, version : Nat, user : Users]

VARIABLES
    conn,           \* users with an open gateway connection
    attr,           \* users pinned to a campaign (attr:userref, attr:signups)
    keys,           \* Redis keys naming a user: <<canvas, user>> (gauge, op, ban)
    stream,         \* canvas -> undrained entries: sequence of [version, user]
    meta,           \* canvas -> the version counter place.lua increments
    rows,           \* the `placements` table: [canvas, version, user]
    stats,          \* the `userCanvasStats` table: <<user, canvas>>
    marks,          \* bans, canvasModerators, pixelModeration, auditLog rows:
                    \* [kind, canvas, of (whom it is about), by (who did it)]
    worker,         \* the canvases the worker loaded at boot
    job,            \* deleteMyAccount: [pc, user, owned, member, extra]
    gone,           \* users whose identity has been deleted
    races           \* what ran against a deletion (history)

dataVars == <<rows, stats, marks>>
redisVars == <<keys, stream, meta, attr>>
vars == <<ownVars, liveVars, conn, redisVars, dataVars, worker, job, gone, races>>

NoJob == [pc |-> "idle", user |-> Anon, owned |-> {}, member |-> {}, extra |-> {}]
Erasing(u) == job.user = u
Race(tag, us) == races' = IF us = {} THEN races ELSE races \cup {tag}
InStream(u) == {c \in DOMAIN stream : \E i \in DOMAIN stream[c] : stream[c][i].user = u}

----------------------------------------------------------------------------
(* The rest of the system, as far as it writes a user's name somewhere.       *)

(* A WebSocket upgrade: authenticated once, then served until it closes.      *)
Connect(u) ==
    /\ profile[u] # {} /\ u \notin gone /\ u \notin conn
    /\ Use("connect")
    /\ conn' = conn \cup {u}
    /\ attr' = attr \cup {u}
    /\ Race("reconnected", {u} \cap {job.user})
    /\ UNCHANGED <<profile, canvases, jobs, named, liveVars, keys, stream, meta,
                   dataVars, worker, job, gone>>

(* place.lua on any canvas the connection is on: the gateway asks Convex      *)
(* neither whether the canvas is archived nor whether it still exists.  A     *)
(* placement on a canvas that is dying with its owner brings its keys back.   *)
Place(u, c) ==
    /\ u \in conn
    /\ Use("place")
    /\ meta' = [meta EXCEPT ![c] = @ + 1]
    /\ stream' = [stream EXCEPT ![c] = Append(@, [version |-> meta[c] + 1, user |-> u])]
    /\ keys' = keys \cup {<<c, u>>}
    /\ Race("open_connection", {v \in {u} : \/ u \in {job.user} \cup gone
                                          \/ c \in job.owned \cup (DOMAIN canvases \ Ids)})
    /\ UNCHANGED <<profile, canvases, jobs, named, liveVars, conn, attr, dataVars,
                   worker, job, gone>>

(* One drain of one loaded canvas; without a canvas row it does nothing.  An  *)
(* entry whose version has a row is dropped: the counter of a canvas starts   *)
(* again when its owner's deletion died after the first sweep.                *)
Drain(c) ==
    LET fresh == {[canvas |-> c, version |-> stream[c][i].version,
                   user |-> stream[c][i].user] : i \in DOMAIN stream[c]}
        new == {r \in fresh : \A old \in rows :
                    old.canvas = c => old.version # r.version}
    IN  /\ c \in worker /\ c \in Ids /\ stream[c] # <<>>
        /\ rows' = rows \cup new
        /\ stats' = stats \cup {<<r.user, c>> : r \in new}
        /\ stream' = [stream EXCEPT ![c] = <<>>]
        /\ Race("dropped", fresh \ new)
        /\ UNCHANGED <<ownVars, liveVars, conn, keys, meta, attr, marks, worker, job, gone>>

(* loadCanvasMap: the canvases that are active when the worker boots.         *)
WorkerBoot ==
    /\ Use("boot")
    /\ worker' = {c \in Ids : canvases[c].status = "active"}
    /\ UNCHANGED <<profile, canvases, jobs, named, liveVars, conn, redisVars, dataVars,
                   job, gone, races>>

(* The owner of a canvas bans a user who placed there, or names a moderator:  *)
(* a row of its own and an audit row.                                         *)
Moderate(m, u, c, kind) ==
    /\ m # u /\ m \notin gone /\ profile[m] # {} /\ c \in OwnedBy(m)
    /\ \/ kind \in {"ban", "overlay"} /\ \E r \in rows : r.canvas = c /\ r.user = u
       \/ kind = "mod"
    /\ Use("moderate")
    /\ marks' = marks \cup {[kind |-> k, canvas |-> c, of |-> u,
                               by |-> IF k \in {"ban", "audit"} THEN m ELSE Anon]
                              : k \in {kind, "audit"}}
    /\ Race("moderated", {u, m} \cap ({job.user} \cup gone))
    /\ UNCHANGED <<profile, canvases, jobs, named, liveVars, conn, redisVars, rows,
                   stats, worker, job, gone>>

----------------------------------------------------------------------------
(* deleteMyAccount, step by step.                                             *)
Steps == <<"flush", "redis", "stats", "placements", "ban", "mod", "overlay",
           "audit", "live", "cascade", "redis2", "identity">>
After(pc) == Steps[(CHOOSE i \in DOMAIN Steps : Steps[i] = pc) + 1]
At(pc) == job.pc = pc
Goto(pc) == job' = [job EXCEPT !.pc = pc]

(* requireUserId and PREAUTH_collectUserRefs.                                 *)
StartErasure(u) ==
    LET owned == OwnedBy(u)
    IN  /\ Use("erase")
        /\ job = NoJob /\ profile[u] # {} /\ u \notin gone
        /\ job' = [pc |-> "flush", user |-> u, owned |-> owned, extra |-> {},
                   member |-> {c \in Ids \ owned : <<u, c>> \in stats}]
        /\ UNCHANGED <<profile, canvases, jobs, named, liveVars, conn, redisVars,
                       dataVars, worker, gone, races>>

(* forceFlush publishes a nudge, then a fixed 2 s wait: nothing is awaited.   *)
FlushAndWait ==
    /\ At("flush") /\ Goto("redis")
    /\ UNCHANGED <<ownVars, liveVars, conn, redisVars, dataVars, worker, gone, races>>

(* PurgeUserService.purgeUser: the user's keys on `member`, every key of the  *)
(* owned canvases (stream and meta included), the attribution.                *)
PurgeRedis(member) ==
    /\ keys' = {k \in keys : k[1] \notin job.owned
                             /\ ~(k[1] \in member /\ k[2] = job.user)}
    /\ stream' = [c \in DOMAIN stream |-> IF c \in job.owned THEN <<>> ELSE stream[c]]
    /\ meta' = [c \in DOMAIN meta |-> IF c \in job.owned THEN 0 ELSE meta[c]]
    /\ attr' = attr \ {job.user}

(* A rejected post throws: see ErasureDies.                                   *)
FirstSweep ==
    /\ At("redis") /\ Goto("stats")
    /\ PurgeRedis(job.member)
    /\ UNCHANGED <<ownVars, liveVars, conn, dataVars, worker, gone, races>>

(* PREAUTH_purgeStatsBatch until a batch comes back short.                    *)
PurgeStats ==
    LET mine == {s \in stats : s[1] = job.user}
    IN  /\ At("stats")
        /\ \E batch \in kSubset(Min({BatchSize, Cardinality(mine)}), mine) :
                stats' = stats \ batch
        /\ IF Cardinality(mine) < BatchSize THEN Goto("placements") ELSE UNCHANGED job
        /\ Race("slow_worker", InStream(job.user))
        /\ UNCHANGED <<ownVars, liveVars, conn, redisVars, rows, marks, worker, gone>>

(* (mutated) every placement of the user is deleted.                          *)
PlanPurgeAll(row, owned) == {}
(* (mutated) a row on somebody else's canvas is left as it is.                *)
PlanPurgeOwned(row, owned) == IF row.canvas \in owned THEN {} ELSE {row}

(* planPlacementPurge: deleted on an owned canvas, anonymised elsewhere.      *)
PlanPurge(row, owned) ==
    IF row.canvas \in owned THEN {} ELSE {[row EXCEPT !.user = Anon]}
(* PREAUTH_purgePlacementsBatch; the canvases it touches are swept again.     *)
PurgePlacements ==
    LET mine == {r \in rows : r.user = job.user}
    IN  /\ At("placements")
        /\ \E batch \in kSubset(Min({BatchSize, Cardinality(mine)}), mine) :
            /\ rows' = (rows \ batch) \cup UNION {PlanPurge(r, job.owned) : r \in batch}
            /\ job' = [job EXCEPT
                    !.extra = @ \cup {r.canvas : r \in batch},
                    !.pc = IF Cardinality(mine) < BatchSize THEN After(@) ELSE @]
        /\ Race("slow_worker", InStream(job.user))
        /\ UNCHANGED <<ownVars, liveVars, conn, redisVars, stats, marks, worker, gone>>

(* What is left of a row that may name u: a ban of u and u's moderator row go,*)
(* an overlay and an audit row stay without the name.                         *)
ScrubBanRow(mark, u) ==
    IF mark.of = u THEN {} ELSE {[mark EXCEPT !.by = IF @ = u THEN Anon ELSE @]}
ScrubModeratorRow(mark, u) ==
    IF mark.of = u THEN {} ELSE {mark}
ScrubOverlayRow(mark, u) == {[mark EXCEPT !.of = IF @ = u THEN Anon ELSE @]}
ScrubAuditRow(mark, u) ==
    {[mark EXCEPT !.of = IF @ = u THEN Anon ELSE @, !.by = IF @ = u THEN Anon ELSE @]}

(* One paginated scan of a whole table, as the pages of one step.             *)
Scrub(kind, Scrubbed(_, _)) ==
    /\ At(kind) /\ Goto(After(kind))
    /\ marks' = UNION {IF m.kind = kind THEN Scrubbed(m, job.user) ELSE {m} : m \in marks}
    /\ UNCHANGED <<ownVars, liveVars, conn, redisVars, rows, stats, worker, gone, races>>

ScrubBans == Scrub("ban", ScrubBanRow)
ScrubModerators == Scrub("mod", ScrubModeratorRow)
ScrubPixelModeration == Scrub("overlay", ScrubOverlayRow)
ScrubAudit == Scrub("audit", ScrubAuditRow)

DeleteLiveStatus ==
    /\ At("live") /\ Goto("cascade")
    /\ live' = [live EXCEPT ![job.user] = "none"]
    /\ Race("stale_poll", {p \in poll : job.user \in p.ids \cup p.queried})
    /\ UNCHANGED <<ownVars, twitch, poll, conn, redisVars, dataVars, worker, gone>>

(* UNAUTH_deleteOwnedCanvasBatch: what hangs on the canvas first, its row in  *)
(* the call that has budget left.                                             *)
CascadeCanvas(c) ==
    LET placed == {r \in rows : r.canvas = c}
    IN  /\ At("cascade") /\ c \in job.owned /\ c \in Ids
        /\ IF Cardinality(placed) >= BatchSize
           THEN /\ \E batch \in kSubset(BatchSize, placed) : rows' = rows \ batch
                /\ UNCHANGED <<canvases, stats, marks>>
           ELSE /\ rows' = rows \ placed
                /\ stats' = {s \in stats : s[2] # c}
                /\ marks' = {m \in marks : m.canvas # c}
                /\ canvases' = [canvases EXCEPT ![c].status = "deleted"]
        /\ UNCHANGED <<profile, jobs, named, budget, liveVars, conn, redisVars, worker,
                       job, gone, races>>

CascadeDone ==
    /\ At("cascade") /\ job.owned \cap Ids = {}
    /\ Goto("redis2")
    /\ UNCHANGED <<ownVars, liveVars, conn, redisVars, dataVars, worker, gone, races>>

(* (mutated) the canvases only the log knew are not swept.                    *)
SecondSweepOwned ==
    /\ At("redis2") /\ Goto("identity")
    /\ IF job.owned = {} THEN UNCHANGED redisVars ELSE PurgeRedis({})
    /\ UNCHANGED <<ownVars, liveVars, conn, dataVars, worker, gone, races>>

(* The second sweep is for canvases only the log knew, and best-effort.       *)
SecondSweep ==
    LET extras == job.extra \ (job.owned \cup job.member)
    IN  /\ At("redis2") /\ Goto("identity")
        /\ IF extras = {} /\ job.owned = {} THEN UNCHANGED redisVars
           ELSE PurgeRedis(extras)
        /\ UNCHANGED <<ownVars, liveVars, conn, dataVars, worker, gone, races>>

SecondSweepFails ==
    /\ At("redis2") /\ Use("sweepFails") /\ Goto("identity")
    /\ Race("sweep_failed", {job.user})
    /\ UNCHANGED <<profile, canvases, jobs, named, liveVars, conn, redisVars, dataVars,
                   worker, gone>>

(* Sessions, accounts, then the user, whose onDelete takes the profile.       *)
DeleteIdentity ==
    /\ At("identity")
    /\ profile' = [profile EXCEPT ![job.user] = {}]
    /\ gone' = gone \cup {job.user}
    /\ job' = NoJob
    /\ UNCHANGED <<canvases, jobs, named, budget, liveVars, conn, redisVars, dataVars,
                   worker, races>>

(* The action dies, or the gateway rejects the first sweep.  The canvases of  *)
(* the rows it has anonymised were only in its memory.                        *)
ErasureDies ==
    /\ job # NoJob /\ Use("die")
    /\ job' = NoJob
    /\ Race("forgotten", job.extra \ (job.owned \cup job.member))
    /\ UNCHANGED <<profile, canvases, jobs, named, liveVars, conn, redisVars, dataVars,
                   worker, gone>>

----------------------------------------------------------------------------
(* A canvas made by a user after its deletion has read what it owns.          *)
OwnershipSteps ==
    /\ OwnershipNext
    /\ Race("canvas_created", {c \in DOMAIN canvases' \ DOMAIN canvases :
                                  canvases'[c].owner \in {job.user} \cup gone})
    /\ stream' = [c \in DOMAIN canvases' |-> IF c \in DOMAIN stream THEN stream[c] ELSE <<>>]
    /\ meta' = [c \in DOMAIN canvases' |-> IF c \in DOMAIN meta THEN meta[c] ELSE 0]
    /\ UNCHANGED <<liveVars, conn, keys, attr, dataVars, worker, job, gone>>

(* A poll that reads the owners between steps "live" and "cascade" still has  *)
(* the user in its list.                                                      *)
LiveSteps ==
    /\ LiveNext
    /\ Race("stale_poll", {u \in {job.user} : /\ job.pc \in {"cascade", "redis2", "identity"}
                                              /\ poll = {} /\ \E p \in poll' : u \in p.ids})
    /\ UNCHANGED <<conn, redisVars, dataVars, worker, job, gone>>

(* A population: what is already there, and what may still happen.            *)
Init ==
    \E p \in Populations :
        /\ profile = p.profile /\ canvases = p.canvases /\ budget = p.budget
        /\ named = [u \in Users |-> {q.login : q \in p.profile[u]}]
        /\ jobs = {}
        /\ LiveInit
        /\ conn = p.conn /\ attr = p.conn
        /\ rows = p.rows
        /\ stats = {<<r.user, r.canvas>> : r \in p.rows}
        /\ keys = {<<r.canvas, r.user>> : r \in p.rows}
        /\ stream = [c \in DOMAIN p.canvases |-> <<>>]
        /\ meta = [c \in DOMAIN p.canvases |->
                      Cardinality({r \in p.rows : r.canvas = c})]
        /\ marks = {} /\ gone = {} /\ races = {}
        /\ worker = DOMAIN p.canvases
        /\ job = NoJob

Traffic ==
    \/ \E u \in Users : Connect(u)
    \/ \E u \in Users, c \in DOMAIN canvases : Place(u, c)
    \/ \E c \in DOMAIN canvases : Drain(c)
    \/ WorkerBoot
    \/ \E m, u \in Users, c \in DOMAIN canvases, kind \in {"ban", "mod", "overlay"} :
            Moderate(m, u, c, kind)

JobStep ==
    \/ FlushAndWait \/ FirstSweep \/ PurgeStats \/ PurgePlacements
    \/ ScrubBans \/ ScrubModerators \/ ScrubPixelModeration \/ ScrubAudit
    \/ DeleteLiveStatus
    \/ \E c \in DOMAIN canvases : CascadeCanvas(c)
    \/ CascadeDone \/ SecondSweep \/ DeleteIdentity

Next ==
    \/ OwnershipSteps \/ LiveSteps \/ Traffic
    \/ \E u \in Users : StartErasure(u)
    \/ JobStep \/ SecondSweepFails \/ ErasureDies

Spec == Init /\ [][Next]_vars

(* A running action takes its next step, the worker's timer fires for the     *)
(* canvases it loaded, the cron starts its run and finishes it.               *)
FairSpec ==
    /\ Spec
    /\ WF_vars(JobStep)
    /\ \A c \in 1..MaxCanvases : WF_vars(c \in DOMAIN canvases /\ Drain(c))
    /\ WF_vars(LiveSteps /\ (StartPoll \/ ApplyStatus))
    /\ WF_vars(LiveSteps /\ \E p \in poll : AskHelix(p.ids))
----------------------------------------------------------------------------
(* What canvas ownership, the live badge and account deletion promise.        *)
OneActiveOneSlug ==
    /\ \A c, d \in Ids : canvases[c].slug = canvases[d].slug => c = d
    /\ \A u \in Users : Cardinality(ActiveOf(u)) <= 1

LinkFollowsActive ==
    \A u \in Users :
        LET slug == SlugOf(PersonalBase(Login(u)), 1)
        IN  (ActiveOf(u) # {} /\ \E c \in OwnedBy(u) : canvases[c].slug = slug)
                => ResolveSlug(slug) = ActiveOf(u)

MyCanvasIsActive ==
    \A u \in Users : Login(u) # NoLogin /\ ActiveOf(u) # {} => ResolveSlug(MyCanvasSlug(u)) = ActiveOf(u)

(* A link leads to one canvas, and to the right one: no two canvases share a  *)
(* slug (getCanvasBySlug and the worker read them with .unique(), which       *)
(* throws on two), an owner has one active canvas at most (CA2), and a user's *)
(* link /login shows that one as soon as the slug is its own, as does the "my *)
(* canvas" button, so archiving the personal canvas for another never strands *)
(* viewers on the archived one (FEN-1785, FEN-1719) - whatever order sign-ups,*)
(* mints, renames and activations take.                                       *)
LinksLeadToActive == OneActiveOneSlug /\ LinkFollowsActive /\ MyCanvasIsActive

(* When the identity is gone, nothing names the user any more: no key, no     *)
(* undrained entry, no placement, stat, ban, audit row, live row or canvas -  *)
(* across crashes and retries of the deletion - unless one of the recorded    *)
(* races ran against it.                                                      *)
ErasedLeavesNoTrace ==
    \A u \in gone :
        /\ races \cap {"open_connection", "slow_worker"} = {} =>
                /\ InStream(u) = {} /\ \A r \in rows : r.user # u
                /\ \A s \in stats : s[1] # u
        /\ races \cap {"open_connection", "slow_worker", "sweep_failed", "forgotten", "dropped"} = {} =>
                \A k \in keys : k[2] # u
        /\ "moderated" \notin races => \A m \in marks : m.of # u /\ m.by # u
        /\ "stale_poll" \notin races => live[u] = "none"
        /\ "canvas_created" \notin races => OwnedBy(u) = {}
        /\ "reconnected" \notin races => u \notin attr

(* Deleting an account anonymises the user's pixels on other people's         *)
(* canvases and never removes them: the from-v0 rebuild keeps every row of a  *)
(* canvas that stays (D-1, option A).                                         *)
OthersKeepPixels ==
    [][\A r \in rows : r.canvas \in Ids /\ canvases[r.canvas].owner # job.user =>
          \E q \in rows' : q.canvas = r.canvas /\ q.version = r.version]_vars

(* A deletion that is not killed finishes, however many batches it takes and  *)
(* whatever the worker adds meanwhile: every processed row leaves the index   *)
(* the next batch is read from.                                               *)
ErasureEnds == (job # NoJob) ~> (job = NoJob)

(* What the header of the worker says of its tick: it goes over the active    *)
(* canvases, so a placement on one of them becomes durable.                   *)
ActiveCanvasesAreDrained ==
    \A c \in 1..MaxCanvases :
        (c \in Ids /\ stream[c] # <<>>)
            ~> (c \notin Ids \/ canvases[c].status # "active" \/ stream[c] = <<>>)
=============================================================================
