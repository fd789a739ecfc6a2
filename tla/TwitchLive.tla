----------------------------- MODULE TwitchLive -----------------------------
(* The cron of twitchLive.ts, every 60 s: which owners of active canvases are *)
(* live on Twitch, written to `streamStatus` on a transition only.  Convex    *)
(* runs one instance of a cron at a time; the ids are read once, then one     *)
(* Helix call per batch may fail, then one mutation applies what was learnt.  *)
EXTENDS Ownership

VARIABLES
    twitch,     \* user -> is the channel live (the outside world)
    live,       \* user (its twitchId) -> its streamStatus: "none", "off", "on"
    poll        \* the run in progress: [ids, asked, queried, on], or none: {}

liveVars == <<twitch, live, poll>>

TwitchChanges(u) ==
    /\ Use("twitch")
    /\ twitch' = [twitch EXCEPT ![u] = ~@]
    /\ UNCHANGED <<profile, canvases, jobs, named, live, poll>>

(* UNAUTH_getActiveOwnerTwitchIds: the profile join drops ownerless canvases. *)
ActiveOwners == {u \in Users : ActiveOf(u) # {} /\ profile[u] # {}}

(* A missing token, or nobody to ask about, ends the run before it starts.    *)
(* (Allowed("cron"): the model has the cron at all.)                          *)
StartPoll ==
    /\ Allowed("cron")
    /\ poll = {} /\ ActiveOwners # {}
    /\ poll' = {[ids |-> ActiveOwners, queried |-> {}, on |-> {}]}
    /\ UNCHANGED <<ownVars, twitch, live>>

(* One Helix call; a failed one leaves its ids out of `queried`.              *)
AskHelix(batch) ==
    \E p \in poll :
        /\ batch # {} /\ batch \subseteq p.ids
        /\ poll' = {[ids |-> p.ids \ batch, queried |-> p.queried \cup batch,
                     on |-> p.on \cup {u \in batch : twitch[u]}]}
        /\ UNCHANGED <<ownVars, twitch, live>>

HelixFails(batch) ==
    /\ Use("helixFails")
    /\ \E p \in poll :
        /\ batch # {} /\ batch \subseteq p.ids
        /\ poll' = {[p EXCEPT !.ids = @ \ batch]}
    /\ UNCHANGED <<profile, canvases, jobs, named, twitch, live>>

(* planStatusPatch: no write when the row already says so.                    *)
Patched(row, isLive) ==
    IF (row = "on" /\ isLive) \/ (row = "off" /\ ~isLive) THEN row
    ELSE IF isLive THEN "on" ELSE "off"

ApplyStatus ==
    \E p \in poll :
        /\ p.ids = {}
        /\ poll' = {}
        /\ live' = [u \in Users |->
                IF u \in p.queried THEN Patched(live[u], u \in p.on) ELSE live[u]]
        /\ UNCHANGED <<ownVars, twitch>>

LiveInit ==
    /\ twitch = [u \in Users |-> FALSE]
    /\ live = [u \in Users |-> "none"]
    /\ poll = {}

LiveNext ==
    \/ \E u \in Users : TwitchChanges(u)
    \/ StartPoll
    \/ \E batch \in SUBSET Users : AskHelix(batch) \/ HelixFails(batch)
    \/ ApplyStatus
=============================================================================
