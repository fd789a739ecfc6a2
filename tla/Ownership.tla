----------------------------- MODULE Ownership -----------------------------
(* Who owns which canvas: the Convex functions of canvases.ts and auth.ts     *)
(* that sign a user up, mint the personal canvas, create, activate, archive   *)
(* and resolve canvases.  A mutation is one step (Convex serialises them); a  *)
(* scheduled function or a Helix fetch runs later, in any order, or fails.    *)
(*                                                                            *)
(* A slug is [login, canvas, n]: personalBaseSlug(login) with its "-canvas"   *)
(* suffix or not, and the number uniqueSlug appends (1: none).                *)
EXTENDS Integers, Sequences, FiniteSets

CONSTANTS
    Users,      \* Better Auth user ids
    Logins,     \* Twitch logins and what display names lower-case to
    NoLogin,    \* profiles.login before account.onCreate, or for a blank name
    Reserved,   \* logins that are RESERVED_SLUGS of @canvas/canvas-rules
    ExactLogin  \* the login Helix GET /users returns for a user

ASSUME LoginAssumption ==
    NoLogin \notin Logins /\ Reserved \subseteq Logins /\ ExactLogin \in [Users -> Logins]

VARIABLES
    profile,    \* user -> the set of its `profiles` rows (at most one): [login]
    canvases,   \* the `canvases` table in insertion order; an id is an index
    jobs,       \* scheduled functions not run yet: <<"ensure" | "backfill", user>>
    named,      \* user -> every login its profile ever had (history)
    budget      \* how often each operation may still occur

ownVars == <<profile, canvases, jobs, named, budget>>

Allowed(op) == op \in DOMAIN budget /\ budget[op] > 0
Use(op) == Allowed(op) /\ budget' = [budget EXCEPT ![op] = @ - 1]

Ids == {c \in DOMAIN canvases : canvases[c].status # "deleted"}
OwnedBy(u) == {c \in Ids : canvases[c].owner = u}
ActiveOf(u) == {c \in OwnedBy(u) : canvases[c].status = "active"}
Login(u) == IF profile[u] = {} THEN NoLogin ELSE (CHOOSE p \in profile[u] : TRUE).login

PersonalBase(login) == [login |-> login, canvas |-> login \in Reserved]
SlugOf(base, n) == [login |-> base.login, canvas |-> base.canvas, n |-> n]
MatchesPersonalSlug(slug, base) == slug.login = base.login /\ slug.canvas = base.canvas
Taken(slug) == \E c \in Ids : canvases[c].slug = slug
UniqueSlug(base) ==
    SlugOf(base, CHOOSE n \in 1..(Len(canvases) + 1) :
                    /\ ~Taken(SlugOf(base, n))
                    /\ \A m \in 1..(n - 1) : Taken(SlugOf(base, m)))

(* demoteActive: every active canvas of the owner but `except` is archived.   *)
Demoted(u, except) ==
    [c \in DOMAIN canvases |->
        IF c \in ActiveOf(u) \ except THEN [canvases[c] EXCEPT !.status = "archived"]
        ELSE canvases[c]]
NewCanvas(u, slug, minted) ==
    [owner |-> u, slug |-> slug, status |-> "active", minted |-> minted]
(* (mutated) the demotion forgotten, as in an insert that skips demoteActive. *)
InsertBeside(u, slug, minted) ==
    canvases' = Append(canvases, NewCanvas(u, slug, minted))
Insert(u, slug, minted) ==
    canvases' = Append(Demoted(u, {}), NewCanvas(u, slug, minted))

----------------------------------------------------------------------------
(* user.onCreate and account.onCreate run in the sign-in transaction: the     *)
(* login is the display name lower-cased, NoLogin if it was blank.            *)
SignUp(u, login) ==
    /\ Use("signUp")
    /\ profile[u] = {} /\ named[u] = {}
    /\ profile' = [profile EXCEPT ![u] = {[login |-> login]}]
    /\ named' = [named EXCEPT ![u] = {login}]
    /\ jobs' = jobs \cup {<<"backfill", u>>, <<"ensure", u>>}
    /\ UNCHANGED canvases

Ensure(u) ==
    LET base == PersonalBase(Login(u))
    IN  IF \/ Login(u) = NoLogin
           \/ \E c \in OwnedBy(u) : MatchesPersonalSlug(canvases[c].slug, base)
        THEN UNCHANGED canvases
        ELSE Insert(u, UniqueSlug(base), TRUE)

EnsureJob(u) ==
    /\ <<"ensure", u>> \in jobs
    /\ jobs' = jobs \ {<<"ensure", u>>}
    /\ Ensure(u)
    /\ UNCHANGED <<profile, named, budget>>

(* The client's safety net on every authenticated mount (CanvasViewLive).     *)
EnsureOnMount(u) ==
    /\ profile[u] # {}
    /\ Ensure(u)
    /\ canvases' # canvases
    /\ UNCHANGED <<profile, jobs, named, budget>>

(* PREAUTH_backfillExactLogin: Helix answers, or any failure is swallowed.    *)
Backfill(u) ==
    /\ <<"backfill", u>> \in jobs
    /\ jobs' = jobs \ {<<"backfill", u>>}
    /\ profile' = [profile EXCEPT ![u] =
            {[p EXCEPT !.login = ExactLogin[u]] : p \in @}]
    /\ named' = [named EXCEPT ![u] =
            IF profile[u] = {} THEN @ ELSE @ \cup {ExactLogin[u]}]
    /\ UNCHANGED <<canvases, budget>>

BackfillFails(u) ==
    /\ <<"backfill", u>> \in jobs
    /\ jobs' = jobs \ {<<"backfill", u>>}
    /\ UNCHANGED <<profile, canvases, named, budget>>

(* createCanvas needs a signed-in caller, not a profile.  Without an explicit *)
(* slug it is derived from the identity's nickname and made unique.           *)
CreateCanvas(u, login, explicit) ==
    LET base == [login |-> login, canvas |-> FALSE]
    IN  /\ Use("create")
        /\ IF explicit
           THEN /\ login \notin Reserved /\ ~Taken(SlugOf(base, 1))
                /\ Insert(u, SlugOf(base, 1), FALSE)
           ELSE Insert(u, UniqueSlug(base), FALSE)
        /\ UNCHANGED <<profile, jobs, named>>

Activate(u, c) ==
    /\ Use("activate")
    /\ c \in OwnedBy(u) /\ canvases[c].status # "active"
    /\ canvases' = [Demoted(u, {c}) EXCEPT ![c].status = "active"]
    /\ UNCHANGED <<profile, jobs, named>>

Archive(u, c) ==
    /\ Use("archive")
    /\ c \in ActiveOf(u)
    /\ canvases' = [canvases EXCEPT ![c].status = "archived"]
    /\ UNCHANGED <<profile, jobs, named>>

----------------------------------------------------------------------------
(* (mutated) the slug leads to its own canvas only, archived or not.          *)
ResolveFlat(slug) == {c \in Ids : canvases[c].slug = slug}

(* getCanvasBySlug: an archived canvas under its owner's personal slug stands *)
(* for the owner's active canvas.                                             *)
ResolveSlug(slug) ==
    LET found == {c \in Ids : canvases[c].slug = slug}
        owner == canvases[CHOOSE c \in found : TRUE].owner
    IN  IF /\ found # {}
           /\ \A c \in found : canvases[c].status # "active"
           /\ Login(owner) # NoLogin
           /\ slug = SlugOf(PersonalBase(Login(owner)), 1)
           /\ ActiveOf(owner) # {}
        THEN ActiveOf(owner)
        ELSE found

(* auth.me: the "my canvas" button.                                           *)
MyCanvasSlug(u) ==
    IF ActiveOf(u) = {} THEN SlugOf(PersonalBase(Login(u)), 1)
    ELSE canvases[CHOOSE c \in ActiveOf(u) : TRUE].slug

OwnershipInit ==
    /\ profile = [u \in Users |-> {}]
    /\ canvases = <<>>
    /\ jobs = {}
    /\ named = [u \in Users |-> {}]

OwnershipNext ==
    \E u \in Users :
        \/ \E login \in Logins \cup {NoLogin} : SignUp(u, login)
        \/ EnsureJob(u) \/ EnsureOnMount(u) \/ Backfill(u) \/ BackfillFails(u)
        \/ \E login \in Logins, explicit \in BOOLEAN : CreateCanvas(u, login, explicit)
        \/ \E c \in DOMAIN canvases : Activate(u, c) \/ Archive(u, c)
=============================================================================
