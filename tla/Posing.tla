------------------------------- MODULE Posing -------------------------------
(* The canvas page (CanvasView.tsx and its hooks): tools, the staged batch,   *)
(* the pixel panel, the modes they switch between, and the answer to "may I   *)
(* place?" that the bound-once callbacks read through refs.  The refs hold    *)
(* what the last render saw (`seen`), not what has arrived since; the board,  *)
(* the labels, sounds and layout are left out.                                *)
EXTENDS Gestures, NetClient, FiniteSetsExt

CONSTANTS
    Colors,         \* paint colours; Erase (EMPTY_COLOR) is none of them
    Erase,
    Board,          \* the colour each cell shows
    MaxCharges,     \* bound: charges a gauge frame may carry
    MaxTiers,       \* bound: tiers one can earn
    Scenarios       \* the budgets of events a behaviour may use

VARIABLES
    tool,           \* [color, erasing, picking]: colour, eraser, eyedropper
    drawing, hover, painting, focus, spaceDown,
    batch, cap, locked, flashes, submitting, pending,
    inspect, author, lookups, armed, calls, modPending,
    session, gauge, banned, permission, placeable, seen,
    modal, savedBatch, savedIntent,
    tier,           \* TierClaim: [earned, confirmed, cursor]
    server,         \* the viewer's row: [earned, applied], claims in flight
    budget

modeVars == <<tool, drawing, hover, painting, focus>>
batchVars == <<batch, cap, locked, flashes, submitting, pending>>
panelVars == <<inspect, author, lookups, armed, calls, modPending>>
factVars == <<session, gauge, banned, permission, placeable, seen>>
tripVars == <<modal, savedBatch, savedIntent>>
tierVars == <<tier, server>>
pageVars == <<modeVars, batchVars, panelVars, factVars, tripVars, tierVars>>
vars == <<gestVars, netVars, pageVars, spaceDown, budget>>

Use(what) == /\ what \in DOMAIN budget /\ budget[what] > 0
             /\ budget' = [budget EXCEPT ![what] = @ - 1]
NoUse == UNCHANGED budget

----------------------------------------------------------------------------
(* "Puis-je poser ?" (derivePlaceState) and the refs the last render wrote.   *)

Facts == [gauge |-> gauge, banned |-> banned, permission |-> permission,
          status |-> status, session |-> session, bonus |-> tier.cursor - tier.confirmed]
Charges(f) == f.gauge + f.bonus

PlaceState(f) ==
    CASE f.permission = "banned" -> "banned"
      [] f.permission = "closed" -> IF f.banned THEN "banned" ELSE "frozen"
      [] f.permission \notin {"banned", "closed"} /\ f.banned -> "banned"
      [] f.permission \notin {"banned", "closed"} /\ ~f.banned /\ ~f.session -> "signedOut"
      [] OTHER -> IF f.status = "closed" THEN "offline"
                  ELSE IF f.permission = "loading" \/ f.gauge = None \/ f.status = "connecting"
                       THEN "loading"
                       ELSE IF Charges(f) <= 0 THEN "cooldown" ELSE "ready"

CanPlace == PlaceState(seen) = "ready"
CanArm == PlaceState(seen) \in {"ready", "cooldown"}

(* armingCapacity: the charges, or the one next cell while the gauge is empty.*)
Capacity(f) ==
    IF f.gauge = None THEN f.bonus
    ELSE IF Charges(f) <= 0 THEN 1 ELSE Charges(f)

(* A render: the refs follow, and the capacity effect when the gauge changed. *)
Render ==
    /\ seen # Facts
    /\ seen' = Facts
    /\ cap' = IF seen.gauge # gauge THEN Capacity(Facts) ELSE cap
    /\ NoUse
    /\ UNCHANGED <<gestVars, netVars, modeVars, batch, locked, flashes, submitting, pending,
                   panelVars, session, gauge, banned, permission, placeable, tripVars,
                   tierVars, spaceDown>>

----------------------------------------------------------------------------
(* The staged batch (selection.ts) and the gestures that edit it.             *)

Apply(b, c, color) ==
    IF c \in DOMAIN b
    THEN IF b[c] = color THEN Without(b, c) ELSE [b EXCEPT ![c] = color]
    ELSE IF locked \/ Cardinality(DOMAIN b) >= cap THEN b ELSE b @@ (c :> color)

Brush == IF tool.erasing THEN Erase ELSE tool.color

(* stageCell: anonymous viewers get the modal, hard blocks a toast; a staged  *)
(* cell may always be recoloured or, except with onlyAdd, toggled off.        *)
Staged(c, onlyAdd) ==
    IF \/ ~CanArm /\ c \notin DOMAIN batch
       \/ onlyAdd /\ c \in DOMAIN batch /\ batch[c] = Brush
    THEN batch ELSE Apply(batch, c, Brush)
StageCell(c, onlyAdd) ==
    /\ modal' = (modal \/ ~seen.session)
    /\ batch' = IF seen.session THEN Staged(c, onlyAdd) ELSE batch
    /\ UNCHANGED <<cap, locked, flashes, submitting, pending, savedBatch, savedIntent>>
DontStage == UNCHANGED <<batchVars, tripVars>>

(* shouldSkipColorGuard: painting over a cell that shows the colour already.  *)
SkipsColor(c) == ~tool.erasing /\ Board[c] = tool.color
PaintStage(c) == IF c = Off \/ SkipsColor(c) THEN DontStage ELSE StageCell(c, TRUE)

Deselect(c) == batch' = Without(batch, c)

----------------------------------------------------------------------------
(* The pixel panel (usePixelInspect): lookups carry the request token.        *)

Voided(ls) == {[l EXCEPT !.live = FALSE] : l \in ls}
Disarm == armed' = "none" /\ modPending' = FALSE

(* (mutated) an empty cell needs no lookup, and leaves the token alone.       *)
OpenInspectKeepsToken(c) ==
    /\ inspect' = c
    /\ IF Board[c] = Erase
       THEN author' = "nobody" /\ lookups' = lookups
       ELSE /\ author' = "loading"
            /\ lookups' = Voided(lookups) \cup {[cell |-> c, live |-> TRUE]}
    /\ Disarm /\ UNCHANGED calls

OpenInspect(c) ==
    /\ inspect' = c
    /\ IF Board[c] = Erase
       THEN author' = "nobody" /\ lookups' = Voided(lookups)
       ELSE /\ author' = "loading"
            /\ lookups' = Voided(lookups) \cup {[cell |-> c, live |-> TRUE]}
    /\ Disarm /\ UNCHANGED calls

CloseInspect ==
    /\ inspect' = Off
    /\ lookups' = Voided(lookups)
    /\ Disarm /\ UNCHANGED <<author, calls>>

AuthorAnswers(l, who) ==
    /\ l \in lookups
    /\ lookups' = lookups \ {l}
    /\ author' = IF l.live THEN who ELSE author
    /\ NoUse
    /\ UNCHANGED <<gestVars, netVars, modeVars, batchVars, inspect, armed, calls, modPending,
                   factVars, tripVars, tierVars, spaceDown>>

(* The two-tap confirm: arm an action, then run it on the inspected cell.     *)
ArmAction(a) ==
    /\ inspect # Off /\ ~drawing /\ Board[inspect] # Erase /\ armed = "none"
    /\ Use("mod")
    /\ armed' = a
    /\ UNCHANGED <<gestVars, netVars, modeVars, batchVars, inspect, author, lookups, calls,
                   modPending, factVars, tripVars, tierVars, spaceDown>>
RunModAction ==
    /\ inspect # Off /\ ~drawing /\ armed # "none" /\ ~modPending
    /\ Use("mod")
    /\ calls' = calls \cup {[cell |-> inspect, action |-> armed]}
    /\ modPending' = TRUE
    /\ UNCHANGED <<gestVars, netVars, modeVars, batchVars, inspect, author, lookups, armed,
                   factVars, tripVars, tierVars, spaceDown>>

(* Its answer disarms and closes whatever pixel is inspected by then.         *)
ModActionReturns(call, ok) ==
    /\ call \in calls
    /\ calls' = calls \ {call}
    /\ armed' = "none" /\ modPending' = FALSE
    /\ inspect' = IF ok THEN Off ELSE inspect
    /\ lookups' = IF ok THEN Voided(lookups) ELSE lookups
    /\ NoUse
    /\ UNCHANGED <<gestVars, netVars, modeVars, batchVars, author, factVars, tripVars,
                   tierVars, spaceDown>>

----------------------------------------------------------------------------
(* The modes, and the handlers that move between them.                        *)

Modes(t, d, h, p, f) == tool' = t /\ drawing' = d /\ hover' = h /\ painting' = p /\ focus' = f
Keep(group) == UNCHANGED group

(* startPose / drawFromInspect behind requireAccount; opening the panel takes *)
(* the focus to its handle.                                                   *)
EnterDraw(t, p) ==
    IF ~seen.session
    THEN /\ modal' = TRUE
         /\ Modes(t, drawing, hover, p, focus)
         /\ UNCHANGED <<batchVars, panelVars, savedBatch, savedIntent>>
    ELSE /\ Modes(t, TRUE, IF inspect # Off THEN inspect ELSE hover, p, "hud")
         /\ IF inspect # Off THEN CloseInspect ELSE Keep(panelVars)
         /\ UNCHANGED <<batchVars, tripVars>>

Cancel ==
    /\ Modes(tool, FALSE, Off, painting, focus)
    /\ batch' = <<>>
    /\ CloseInspect
    /\ UNCHANGED <<cap, locked, flashes, submitting, pending, tripVars>>

(* validate: the whole batch becomes un-acked ops, but for the cells the      *)
(* controller refuses at once because the gauge it heard last is empty.       *)
Take == IF locked THEN <<>> ELSE batch
Sent(b) ==
    IF gauge = 0 THEN {} ELSE {[cell |-> c, color |-> b[c], sent |-> CanSend] : c \in DOMAIN b}
Validate ==
    IF ~seen.session THEN /\ modal' = TRUE
                          /\ UNCHANGED <<modeVars, batchVars, panelVars, savedBatch, savedIntent>>
    ELSE IF ~placeable \/ ~CanPlace THEN UNCHANGED <<modeVars, batchVars, panelVars, tripVars>>
    ELSE /\ pending' = pending \cup Sent(Take)
         /\ batch' = IF locked THEN batch ELSE <<>>
         /\ submitting' = TRUE
         /\ flashes' = flashes + 1
         /\ UNCHANGED <<cap, locked, modeVars, panelVars, tripVars>>

(* The 300 ms timer of validate leaves draw mode, whoever is in it by then.   *)
FlashEnds ==
    /\ flashes > 0
    /\ flashes' = flashes - 1
    /\ submitting' = FALSE
    /\ drawing' = FALSE
    /\ NoUse
    /\ UNCHANGED <<gestVars, netVars, tool, hover, painting, focus, batch, cap, locked, pending,
                   panelVars, factVars, tripVars, tierVars, spaceDown>>

(* The callbacks CanvasView hands to the renderer.                            *)
OnTap(c) ==
    IF tool.picking
    THEN LET hit == Board[c] # Erase
             t == [tool EXCEPT !.picking = FALSE, !.color = IF hit THEN Board[c] ELSE @,
                               !.erasing = IF hit THEN FALSE ELSE @]
         IN  /\ Modes(t, drawing, c, painting, IF hit THEN "hud" ELSE focus)
             /\ Keep(panelVars) /\ DontStage
    ELSE IF drawing
    THEN StageCell(c, press.type = "mouse") /\ Keep(modeVars) /\ Keep(panelVars)
    ELSE OpenInspect(c) /\ Modes(tool, drawing, hover, painting, "hud") /\ DontStage
OnLongPress(c) == OpenInspect(c) /\ Modes(tool, drawing, hover, painting, "hud") /\ DontStage
OnRight(c) ==
    /\ IF drawing /\ c # Off
       THEN Deselect(c) /\ UNCHANGED <<cap, locked, flashes, submitting, pending, tripVars>>
       ELSE DontStage
    /\ Keep(modeVars) /\ Keep(panelVars)
OnHover(c) ==
    /\ Modes(tool, drawing, c, painting, focus)
    /\ IF painting /\ drawing THEN PaintStage(c) ELSE DontStage
    /\ Keep(panelVars)
OnCursorMove(c) == Modes(tool, drawing, c, painting, focus) /\ Keep(panelVars) /\ DontStage
OnActivate(c) ==
    IF drawing THEN StageCell(c, FALSE) /\ Modes(tool, drawing, c, painting, focus) /\ Keep(panelVars)
    ELSE OpenInspect(c) /\ Modes(tool, drawing, c, painting, "hud") /\ DontStage

Fire(h) ==
    /\ CASE h.name = "tap" -> OnTap(h.cell)
         [] h.name = "longPress" -> OnLongPress(h.cell)
         [] h.name \in {"rightTap", "rightHover"} -> OnRight(h.cell)
         [] h.name = "hover" -> OnHover(h.cell)
         [] h.name = "cursorMove" -> OnCursorMove(h.cell)
         [] h.name = "activate" -> OnActivate(h.cell)
         [] OTHER -> Keep(modeVars) /\ Keep(panelVars) /\ DontStage
    /\ UNCHANGED <<netVars, factVars, tierVars, spaceDown>>

(* Pointer events; a press on the canvas gives it the focus.                  *)
PressDown(type, button, c) ==
    /\ type = "touch" => button = "left"
    /\ Use("press") /\ PointerDown(type, button, c)
    /\ IF pointers = 0 THEN Modes(tool, drawing, Off, painting, "canvas")
       ELSE Modes(tool, drawing, hover, painting, "canvas")
    /\ Keep(panelVars) /\ DontStage
    /\ UNCHANGED <<netVars, factVars, tierVars, spaceDown>>
PressDrag(c) == Drag /\ Fire(DragHook(c)) /\ NoUse
PressPinch == Pinch /\ Fire(Hook("hover", Off)) /\ NoUse
PressHeld == LongPress /\ Fire(LongPressHook) /\ NoUse
PressUp(c) == PointerUp(c) /\ Fire(UpHook(c)) /\ NoUse
PressLost == PointerCancel /\ Fire(NoHook) /\ NoUse
Survol(c) == Use("hover") /\ HoverIdle /\ Fire(Hook("hover", c))

----------------------------------------------------------------------------
(* The keyboard: the canvas's own listener first, while it has the focus,     *)
(* then the document's (useCanvasKeyboard), which skips what was handled.     *)

ArrowKey(c) ==
    /\ focus = "canvas" /\ Use("key")
    /\ Arrow(c) /\ Fire(ArrowHook(c))

(* Space arms continuous paint; outside draw mode it enters it as well.       *)
SpaceDown ==
    /\ ~spaceDown /\ Use("key")
    /\ spaceDown' = TRUE
    /\ SpaceKey(TRUE, focus = "canvas")
    /\ IF drawing
       THEN /\ Modes(tool, drawing, hover, TRUE, focus) /\ Keep(panelVars)
            /\ IF painting THEN DontStage ELSE PaintStage(hover)
       ELSE EnterDraw(tool, TRUE)
    /\ UNCHANGED <<netVars, factVars, tierVars>>

SpaceUp ==
    /\ spaceDown /\ NoUse
    /\ spaceDown' = FALSE
    /\ SpaceKey(FALSE, focus = "canvas")
    /\ Modes(tool, drawing, hover, FALSE, focus)
    /\ Keep(panelVars) /\ DontStage
    /\ UNCHANGED <<netVars, factVars, tierVars>>

(* A key that is held repeats, and is heard by what has the focus by then: the*)
(* canvas arms its own flag, the page's has no use for a repeat.              *)
SpaceRepeats ==
    /\ spaceDown /\ focus = "canvas" /\ ~spaceHeld /\ NoUse
    /\ SpaceKey(TRUE, TRUE)
    /\ UNCHANGED <<netVars, pageVars, spaceDown>>

(* The window loses the focus with Space down: no keyup will come.  The page  *)
(* listens for it, the renderer does not.                                     *)
Blur ==
    /\ spaceDown /\ Use("blur")
    /\ spaceDown' = FALSE
    /\ Modes(tool, drawing, hover, FALSE, focus)
    /\ Keep(panelVars) /\ DontStage
    /\ UNCHANGED <<gestVars, netVars, factVars, tierVars>>

(* Escape on the canvas cancels everything; elsewhere it peels one layer.     *)
Escape ==
    /\ Use("key")
    /\ IF focus = "canvas" \/ (~tool.picking /\ inspect = Off /\ drawing) THEN Cancel
       ELSE IF tool.picking
       THEN /\ Modes([tool EXCEPT !.picking = FALSE], drawing, hover, painting, focus)
            /\ Keep(panelVars) /\ DontStage
       ELSE IF inspect # Off THEN CloseInspect /\ Keep(modeVars) /\ DontStage
       ELSE Keep(panelVars) /\ Keep(modeVars) /\ DontStage
    /\ UNCHANGED <<gestVars, netVars, factVars, tierVars, spaceDown>>

(* E and I; the eyedropper brings draw mode along and leaves it behind.       *)
ToolKey(k) ==
    /\ Use("key")
    /\ IF k = "e"
       THEN /\ Modes([tool EXCEPT !.erasing = ~@], drawing, hover, painting, focus)
            /\ Keep(panelVars) /\ DontStage
       ELSE IF tool.picking
       THEN /\ Modes([tool EXCEPT !.picking = FALSE], drawing, hover, painting, focus)
            /\ Keep(panelVars) /\ DontStage
       ELSE IF drawing
       THEN /\ Modes([tool EXCEPT !.picking = TRUE], drawing, hover, painting, "hud")
            /\ Keep(panelVars) /\ DontStage
       ELSE EnterDraw([tool EXCEPT !.picking = TRUE], painting)
    /\ UNCHANGED <<gestVars, netVars, factVars, tierVars, spaceDown>>

EnterKey == /\ focus = "canvas" /\ Use("key") /\ Validate
            /\ UNCHANGED <<gestVars, netVars, factVars, tierVars, spaceDown>>

----------------------------------------------------------------------------
(* The dock's buttons.                                                        *)

(* (the main button) poser / valider, dead while placing is not allowed.      *)
MainButton ==
    /\ CanPlace /\ convexAuthed /\ Use("click")
    /\ IF batch # <<>> THEN ~locked /\ Validate ELSE EnterDraw(tool, painting)
    /\ UNCHANGED <<gestVars, netVars, factVars, tierVars, spaceDown>>
CancelButton ==
    /\ batch # <<>> \/ drawing
    /\ Use("click") /\ Cancel
    /\ UNCHANGED <<gestVars, netVars, factVars, tierVars, spaceDown>>
CloseButton ==
    /\ Use("click")
    /\ IF inspect # Off THEN CloseInspect /\ Keep(modeVars) /\ DontStage
       ELSE drawing /\ Cancel
    /\ UNCHANGED <<gestVars, netVars, factVars, tierVars, spaceDown>>
Swatch(col) ==
    /\ Use("click")
    /\ col = Erase => drawing
    /\ Modes([tool EXCEPT !.erasing = (col = Erase), !.color = IF col = Erase THEN @ ELSE col],
             drawing, hover, painting, focus)
    /\ Keep(panelVars) /\ DontStage
    /\ UNCHANGED <<gestVars, netVars, factVars, tierVars, spaceDown>>

----------------------------------------------------------------------------
(* What arrives: frames on an identified socket, permission, tier snapshots.  *)

Keeping == UNCHANGED <<gestVars, modeVars, panelVars, tripVars, spaceDown>>

GaugeFrame(g) ==
    /\ \E s \in DOMAIN sockets : Ready(s) /\ sockets[s].as = "user"
    /\ placeable /\ g # gauge /\ Use("frame")
    /\ gauge' = g
    /\ Keeping /\ UNCHANGED <<netVars, batchVars, tierVars, session, banned, permission,
                              placeable, seen>>
Acked(op, g) ==
    /\ op \in pending /\ op.sent /\ Identified
    /\ pending' = pending \ {op}
    /\ gauge' = g
    /\ NoUse /\ Keeping
    /\ UNCHANGED <<netVars, batch, cap, locked, flashes, submitting, tierVars, session, banned,
                   permission, placeable, seen>>
RefusedBanned(op) ==
    /\ op \in pending /\ op.sent /\ Identified /\ Use("ban")
    /\ pending' = pending \ {op}
    /\ locked' = TRUE /\ banned' = TRUE
    /\ Keeping
    /\ UNCHANGED <<netVars, batch, cap, flashes, submitting, tierVars, session, gauge,
                   permission, placeable, seen>>
PermissionChanges(p) ==
    /\ p # permission /\ Use("permission")
    /\ permission' = p
    /\ Keeping /\ UNCHANGED <<netVars, batchVars, tierVars, session, gauge, banned, placeable,
                              seen>>

(* Play earns tiers; the viewer encashes them all; claimTier applies an index *)
(* once (evaluateTierClaim), or fails and is only logged.                     *)
Reseat == cap' = Capacity([seen EXCEPT !.bonus = tier'.cursor - tier'.confirmed])
TierFrame ==
    UNCHANGED <<gestVars, netVars, modeVars, batch, locked, flashes, submitting, pending,
                panelVars, factVars, tripVars, spaceDown>>
EarnTier ==
    /\ server.earned < MaxTiers /\ Use("tier")
    /\ server' = [server EXCEPT !.earned = @ + 1]
    /\ TierFrame /\ UNCHANGED <<tier, cap>>
Synced(t, p) ==
    LET e == IF p.earned > t.earned THEN p.earned ELSE t.earned
        f == IF p.applied > t.confirmed THEN p.applied ELSE t.confirmed
        e2 == IF f > e THEN f ELSE e
        c == IF t.cursor < f THEN f ELSE t.cursor
    IN  [earned |-> e2, confirmed |-> f, cursor |-> IF c > e2 THEN e2 ELSE c]
TierSnapshot ==
    /\ convexAuthed /\ NoUse
    /\ Synced(tier, server) # tier
    /\ tier' = Synced(tier, server)
    /\ Reseat /\ TierFrame /\ UNCHANGED server
ClaimAll ==
    /\ tier.cursor < tier.earned /\ NoUse
    /\ tier' = [tier EXCEPT !.cursor = tier.earned]
    /\ server' = [server EXCEPT !.claims =
                      IF convexAuthed THEN @ \cup ((tier.cursor + 1)..tier.earned) ELSE @]
    /\ Reseat /\ TierFrame
ClaimLands(i) ==
    /\ i \in server.claims /\ i <= server.earned
    /\ server' = [server EXCEPT !.claims = @ \ {i},
                                !.applied = IF i > @ THEN i ELSE @]
    /\ NoUse /\ TierFrame /\ UNCHANGED <<tier, cap>>
ClaimFails(i) ==
    /\ i \in server.claims /\ Use("claimFails")
    /\ server' = [server EXCEPT !.claims = @ \ {i}]
    /\ TierFrame /\ UNCHANGED <<tier, cap>>

----------------------------------------------------------------------------
(* The socket under the page, and the trip to Twitch and back.                *)

Quiet == UNCHANGED <<gestVars, modeVars, panelVars, tripVars, spaceDown>>
NetOnly == Quiet /\ UNCHANGED <<batchVars, factVars, tierVars>>

Mounts == Mount(session) /\ NetOnly /\ NoUse
Ticket(as) == (IF as = "user" THEN NoUse ELSE Use("tokenFails")) /\ TicketArrives(as) /\ NetOnly
Opens(s) == SocketOpens(s) /\ NetOnly /\ NoUse
Drops(s) == Use("drop") /\ SocketDrops(s) /\ NetOnly
Backoff == BackoffEnds /\ NetOnly /\ NoUse
GoesOffline == Use("offline") /\ Offline /\ NetOnly
GoesOnline == Use("online") /\ Online /\ NetOnly

(* onWelcome builds the placement controller; a reconnect re-sends what is    *)
(* un-acked and replays the unconfirmed claims.                               *)
Welcomed(s) ==
    /\ Welcome(s) /\ NoUse
    /\ placeable' = TRUE
    /\ pending' = IF everConnected /\ CanSend THEN {[op EXCEPT !.sent = TRUE] : op \in pending}
                  ELSE pending
    /\ server' = IF everConnected /\ convexAuthed
                 THEN [server EXCEPT !.claims = @ \cup ((tier.confirmed + 1)..tier.cursor)]
                 ELSE server
    /\ Quiet
    /\ UNCHANGED <<batch, cap, locked, flashes, submitting, tier, session, gauge, banned,
                   permission, seen>>

(* The auth flip; once confirmed, the page takes up what it saved before the  *)
(* trip: draw mode, and the batch, cell by cell through apply().              *)
Flips ==
    /\ begun \/ session
    /\ convexAuthed \/ session
    /\ Use("flip") /\ AuthFlip
    /\ IF convexAuthed THEN UNCHANGED <<drawing, batch, savedBatch, savedIntent>>
       ELSE /\ drawing' = (drawing \/ savedIntent)
            /\ savedIntent' = FALSE
            /\ batch' = FoldSet(LAMBDA c, b : Apply(b, c, savedBatch[c]), batch, DOMAIN savedBatch)
            /\ savedBatch' = <<>>
    /\ UNCHANGED <<gestVars, tool, hover, painting, focus, cap, locked, flashes, submitting,
                   pending, panelVars, factVars, modal, tierVars, spaceDown>>

SessionEnds ==
    /\ session /\ Use("signOut")
    /\ session' = FALSE
    /\ Quiet
    /\ UNCHANGED <<netVars, batchVars, tierVars, gauge, banned, permission, placeable, seen>>

DismissModal ==
    /\ modal /\ NoUse
    /\ modal' = FALSE
    /\ UNCHANGED <<gestVars, netVars, modeVars, batchVars, panelVars, factVars, savedBatch,
                   savedIntent, tierVars, spaceDown>>

(* What a freshly loaded page is, but for the session and what was saved.     *)
NoTier == [earned |-> 0, confirmed |-> 0, cursor |-> 0]
FreshTool == [color |-> CHOOSE c \in Colors : TRUE, erasing |-> FALSE, picking |-> FALSE]
FreshFacts(sess) == [gauge |-> None, banned |-> FALSE, permission |-> "loading",
                     status |-> "connecting", session |-> sess, bonus |-> 0]

(* persistReturnTrip, then the redirect: the page is gone.  It comes back     *)
(* signed in, or as it left when the viewer cancels at Twitch.                *)
TwitchTrip(sess) ==
    /\ modal /\ Use("trip")
    /\ modal' = FALSE
    /\ savedIntent' = TRUE
    /\ savedBatch' = IF batch # <<>> THEN batch ELSE savedBatch
    /\ pointers' = 0 /\ moved' = FALSE /\ press' = [type |-> "mouse", button |-> "left"]
    /\ timer' = {} /\ cursor' = Off /\ spaceHeld' = FALSE /\ fired' = <<>>
    /\ convexAuthed' = FALSE /\ begun' = FALSE /\ fetches' = 0 /\ sockets' = <<>>
    /\ socket' = None /\ timers' = 0 /\ everConnected' = FALSE /\ status' = "connecting"
    /\ tokenFailed' = FALSE
    /\ Modes(FreshTool, FALSE, Off, FALSE, "other") /\ spaceDown' = FALSE
    /\ batch' = <<>> /\ cap' = 0 /\ locked' = FALSE /\ flashes' = 0 /\ submitting' = FALSE
    /\ pending' = {}
    /\ inspect' = Off /\ author' = "nobody" /\ lookups' = {} /\ Disarm /\ calls' = {}
    /\ session' = sess /\ gauge' = None /\ banned' = FALSE /\ permission' = "loading"
    /\ placeable' = FALSE /\ seen' = FreshFacts(sess)
    /\ tier' = NoTier /\ UNCHANGED server

----------------------------------------------------------------------------
Init ==
    /\ GestInit /\ session \in BOOLEAN
    /\ \E b \in Scenarios : budget = b
    /\ \E authed \in BOOLEAN : (authed => session) /\ NetInit(authed)
    /\ tool = FreshTool /\ drawing = FALSE /\ hover = Off /\ painting = FALSE
    /\ focus = "other" /\ spaceDown = FALSE
    /\ batch = <<>> /\ cap = 0 /\ locked = FALSE /\ flashes = 0 /\ submitting = FALSE
    /\ pending = {}
    /\ inspect = Off /\ author = "nobody" /\ lookups = {} /\ armed = "none" /\ calls = {}
    /\ modPending = FALSE
    /\ gauge = None /\ banned = FALSE /\ permission = "loading" /\ placeable = FALSE
    /\ seen = FreshFacts(session)
    /\ modal = FALSE /\ savedBatch = <<>> /\ savedIntent = FALSE
    /\ tier = NoTier /\ server = [earned |-> 0, applied |-> 0, claims |-> {}]

Near == Cells \cup {Off}
Press ==
    \/ \E t \in {"touch", "mouse"}, b \in {"left", "right"}, c \in Near : PressDown(t, b, c)
    \/ \E c \in Near : PressDrag(c)
    \/ PressPinch
    \/ PressHeld
    \/ \E c \in Near : PressUp(c)
    \/ PressLost
    \/ \E c \in Near : Survol(c)
Keyboard ==
    \/ \E c \in Cells : ArrowKey(c)
    \/ SpaceDown
    \/ SpaceRepeats
    \/ SpaceUp
    \/ Blur
    \/ Escape
    \/ \E k \in {"e", "i"} : ToolKey(k)
    \/ EnterKey
Dock ==
    \/ MainButton
    \/ CancelButton
    \/ CloseButton
    \/ \E col \in Colors \cup {Erase} : Swatch(col)
    \/ \E a \in {"deleteGroup", "ban"} : ArmAction(a)
    \/ RunModAction
    \/ DismissModal
    \/ \E sess \in BOOLEAN : TwitchTrip(sess)
Arrivals ==
    \/ \E l \in lookups : \E who \in {l.cell, "nobody"} : AuthorAnswers(l, who)
    \/ \E call \in calls, ok \in BOOLEAN : ModActionReturns(call, ok)
    \/ \E g \in 0..MaxCharges : GaugeFrame(g)
    \/ \E op \in pending, g \in 0..MaxCharges : Acked(op, g)
    \/ \E op \in pending : RefusedBanned(op)
    \/ \E p \in {"open", "closed", "banned"} : PermissionChanges(p)
    \/ EarnTier
    \/ TierSnapshot
    \/ ClaimAll
    \/ \E i \in 1..MaxTiers : ClaimLands(i)
    \/ \E i \in 1..MaxTiers : ClaimFails(i)
    \/ SessionEnds
Transport ==
    \/ Mounts
    \/ \E as \in {"user", "anon"} : Ticket(as)
    \/ \E s \in 1..MaxSockets : Opens(s)
    \/ \E s \in 1..MaxSockets : Welcomed(s)
    \/ \E s \in 1..MaxSockets : Drops(s)
    \/ Backoff
    \/ GoesOffline
    \/ GoesOnline
    \/ Flips
Next == Press \/ Keyboard \/ Dock \/ Arrivals \/ Transport \/ Render \/ FlashEnds

Spec == Init /\ [][Next]_vars

(* Timers fire, renders happen, and a network that is left alone delivers.    *)
FairSpec ==
    /\ Spec
    /\ WF_vars(Mounts) /\ WF_vars(Ticket("user")) /\ WF_vars(Backoff) /\ WF_vars(Render)
    /\ \A s \in 1..MaxSockets : WF_vars(Opens(s)) /\ WF_vars(Welcomed(s))
=============================================================================
