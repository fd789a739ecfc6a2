-------------------------------- MODULE Tab --------------------------------
(* One browser tab, on one of its two pages: the canvas (Posing) or, for a   *)
(* streamer, the studio (Studio).  Neither page is mounted while the other   *)
(* is shown, so that what is not shown rests in its initial state.  Its      *)
(* properties are what the two pages promise.                                *)
EXTENDS Posing, Studio

VARIABLES
    route,      \* "canvas" | "studio"; a behaviour keeps to one (bound)
    strayed     \* (history) since Space reached the renderer the focus has been
                \* elsewhere than on the canvas, or the window has lost it

tabVars == <<vars, studioVars, route, strayed>>

(* A press of Space starts anew.                                             *)
Strays ==
    strayed' = /\ spaceHeld'
               /\ focus' # "canvas" \/ Blur \/ (strayed /\ (spaceDown \/ ~spaceDown'))

OnCanvas == route = "canvas" /\ Strays /\ UNCHANGED <<studioVars, route>>
OnStudio == route = "studio" /\ UNCHANGED <<vars, route, strayed>>

TabInit ==
    /\ strayed = FALSE
    /\ \/ /\ route = "canvas" /\ Init
          /\ quota = <<>> /\ StudioStart({CHOOSE c \in Canvases : TRUE}, 1, TRUE, {})
       \/ /\ route = "studio" /\ StudioInit
          /\ Init /\ budget = <<>> /\ ~session

TabNext == (Next /\ OnCanvas) \/ (StudioNext /\ OnStudio)

(* The canvas page's fairness (Posing); the studio needs none.               *)
FairTab ==
    /\ TabInit /\ [][TabNext]_tabVars
    /\ WF_tabVars(Mounts /\ OnCanvas) /\ WF_tabVars(Ticket("user") /\ OnCanvas)
    /\ WF_tabVars(Backoff /\ OnCanvas) /\ WF_tabVars(Render /\ OnCanvas)
    /\ \A s \in 1..MaxSockets : /\ WF_tabVars(Opens(s) /\ OnCanvas)
                               /\ WF_tabVars(Welcomed(s) /\ OnCanvas)
-----------------------------------------------------------------------------
(* What the page does is what the fingers did.  One press of a pointer does   *)
(* one thing to a cell: a tap or a long-press, never both, and nothing once a *)
(* second finger has made it a pinch (renderer.ts onPointerDown / Up,         *)
(* FEN-788).  Neither of the two flags of continuous paint outlives the Space *)
(* key, whatever the press did to the mode and to the focus: the page's, for  *)
(* the hovering pointer, goes with the keyup or when the window loses the     *)
(* focus (useCanvasKeyboard.ts, FEN-1888, FEN-2014); the renderer's own, for  *)
(* the arrow keys, goes with a keyup that it hears - not when the focus had   *)
(* left the canvas or the window in between, which is excepted.               *)
InputIsWhatWasDone ==
    /\ fired \in {<<>>, <<"tap">>, <<"longPress">>, <<"pinch">>, <<"longPress", "pinch">>}
    /\ painting => spaceDown
    /\ spaceHeld => spaceDown \/ strayed

(* renderer.ts:1032, "Clear space-hold on key-up so continuous-paint stops at *)
(* release".  Space on the canvas outside draw mode enters it and takes the   *)
(* focus to the panel, so that the keyup reaches the document alone; the      *)
(* arrow keys go on staging cells (renderer.ts:1065) with Space up.  This     *)
(* does not hold, and no run checks it.                                       *)
PaintStopsAtRelease == spaceHeld => spaceDown

(* The author the pixel panel names is the author of the pixel it shows,      *)
(* however late and in whatever order the lookups answer (inspectReqRef).     *)
AuthorIsOfInspected ==
    (inspect # Off /\ author \notin {"nobody", "loading"}) => author = inspect

(* Once Convex has confirmed the viewer, and a token could be had, the page   *)
(* ends up holding a socket that carries the identity: without it no gauge    *)
(* frame ever comes and placing stays at "loading" (FEN-184, FEN-267).        *)
SignedInGetsIdentity ==
    <>[](convexAuthed /\ ~tokenFailed => Identified /\ Ready(socket))

(* return-trip.ts: the batch staged before the trip to Twitch "isn't lost":   *)
(* when the page takes it up again, every cell of it is staged.  It is taken  *)
(* up when the JWT is confirmed, before any gauge frame can have raised the   *)
(* capacity from zero: this does not hold, and no run checks it.              *)
RestoredBatchSurvives ==
    [][(savedBatch # <<>> /\ savedBatch' = <<>>)
          => DOMAIN savedBatch \subseteq DOMAIN batch']_vars

(* net.ts reconnect: sign-out "must drop back to the anonymous read-only      *)
(* socket".  A ticket asked for before the sign-out still opens the player's  *)
(* socket: this does not hold, and no run checks it.                          *)
SignedOutIsAnonymous ==
    <>[](~convexAuthed => \A s \in DOMAIN sockets : sockets[s].as = "anon")
-----------------------------------------------------------------------------
(* A resize cuts drained pixels - those that the server's warning counts -   *)
(* only on the canvas, and to the size, of a warning that was accepted,      *)
(* whatever canvas the form shows by then and whatever answers or drains     *)
(* meanwhile (handleShrinkConfirm, updateCanvasConfig); a save that does not *)
(* shrink may still purge, unasked, rows past the frame.  And one console    *)
(* never has two removals under way, however its dialogs are left and        *)
(* reopened meanwhile (confirmBan, confirmWipe, "idempotency guard").        *)
CropsAsAskedRemovesOnce ==
    /\ cropped \subseteq agreed
    /\ desk.id # 0 =>
         Cardinality({call \in dispatched : call.kind \in {"ban", "wipe"} /\ call.by = desk.id}) <= 1

(* canvases.ts:305, "If shrinking would discard K>0 painted pixels outside   *)
(* the new frame" it asks first.  K counts rows of `placements`: a pixel     *)
(* accepted but not yet drained is cut without a question.  This does not    *)
(* hold, and no run checks it.                                               *)
AsksBeforeAnyCrop ==
    [][\A c \in DOMAIN rows : rows'[c].size < rows[c].size /\ rows[c].outside # {}
           => [canvas |-> c, size |-> rows'[c].size] \in agreed]_studioVars

(* CrisisController.tsx:13, "outline a region (client geometry) -> confirm": *)
(* what is confirmed is what was outlined.  The console is not keyed by its  *)
(* canvas, so that after a reactivation its open dialogs send the previous   *)
(* canvas's region, target or audit row to the new one: this does not hold,  *)
(* and no run checks it.                                                     *)
DialogIsOfCanvas ==
    [][docs'.active # docs.active /\ desk'.id = desk.id
          => desk'.target = Nil /\ desk'.region = Nil /\ desk'.row = Nil]_studioVars

(* "A single Sauvegarder button appears only when the user has unsaved       *)
(* changes" (StudioDashboardBody.tsx): what a save writes, the owner edited. *)
(* The form is not keyed by its canvas, so that after a reactivation it      *)
(* offers to save the previous canvas's name, size and visibility onto the   *)
(* new one: this does not hold, and no run checks it.                        *)
FormIsOfCanvas ==
    [][docs'.active # docs.active /\ form'.id = form.id => form' # form]_studioVars
=============================================================================
