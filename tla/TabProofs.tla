----------------------------- MODULE TabProofs ------------------------------
(***************************************************************************)
(* What the two pages of a tab promise, for any cells, canvases, titles,   *)
(* authors, bounds on pointers and sockets, and budgets of events: one     *)
(* press does one thing; the page's flag of continuous paint is set only   *)
(* while Space is down, and the renderer's too as long as the focus stays  *)
(* on the canvas; the author in the panel is the author of its pixel;      *)
(* drained pixels are cut only as a dialog said, and one console has at    *)
(* most one removal under way.                                             *)
(***************************************************************************)
EXTENDS Tab, SequenceTheorems, FiniteSetTheorems, TLAPS

\* What a press may have fired, and what it may have fired while a pointer is still down.
Untapped == {<<>>, <<"longPress">>, <<"pinch">>, <<"longPress", "pinch">>}

\* A press that may still become a tap has fired nothing, a second finger ends that, and
\* only the first finger of a press that never moved may still be timed.
OnePress ==
  /\ pointers \in Nat /\ moved \in BOOLEAN
  /\ timer # {} => pointers = 1 /\ ~moved
  /\ pointers = 1 /\ ~moved => fired = <<>>
  /\ pointers > 1 => moved
  /\ pointers > 0 => fired \in Untapped
  /\ fired \in Untapped \cup {<<"tap">>}

\* A lookup whose token is current asks for the pixel the panel shows.
Lookup(l) == l \in [cell : {l.cell}, live : BOOLEAN]
CurrentIsShown ==
  /\ \A l \in lookups : Lookup(l) /\ (l.live => l.cell = inspect)
  /\ AuthorIsOfInspected

CanvasInv == OnePress /\ (painting => spaceDown) /\ CurrentIsShown

\* The renderer's flag without Space: the focus has been elsewhere.
HeldOrStrayed == spaceHeld => spaceDown \/ strayed

\* The shapes of a call, of the save it carries, of the form and of the console.
Call(c) == c \in [kind : {c.kind}, canvas : {c.canvas}, arg : {c.arg}, by : Nat,
                  outcome : {c.outcome}]
SaveArg(a) == a \in [name : {a.name}, public : {a.public}, size : {a.size}, confirmed : BOOLEAN]
Form(f) == f \in [id : Nat, name : {f.name}, size : {f.size}, public : {f.public},
                  save : {f.save}, shrink : {f.shrink}, timers : {f.timers}]
Desk(d) == d \in [id : Nat, pick : {d.pick}, target : {d.target}, region : {d.region},
                  row : {d.row}, restored : {d.restored}, pending : BOOLEAN,
                  restoring : {d.restoring}, mods : {d.mods}]
IsRemoval(c) == c.kind \in {"ban", "wipe"}

\* A call is signed by a component mounted before now, so that a console that mounts has
\* none on its way; and a confirmed save was confirmed for its canvas and its size.
CallInv(c) ==
  /\ Call(c) /\ c.by <= mounts
  /\ c.kind = "save" => /\ SaveArg(c.arg)
                        /\ c.arg.confirmed => [canvas |-> c.canvas, size |-> c.arg.size] \in agreed
CallsInv == \A c \in dispatched : CallInv(c)

\* What is mounted, and the save that the dialog would confirm.
FormInv(f) == Form(f) /\ f.id <= mounts /\ (f.shrink # Nil => SaveArg(f.shrink.arg))
DeskInv(d) == Desk(d) /\ d.id <= mounts
Mounted == mounts \in Nat /\ page.id \in Nat /\ page.id <= mounts /\ FormInv(form) /\ DeskInv(desk)

\* A console that has a removal on its way waits for it, and has but the one.
OneRemoval ==
  desk.id # 0 =>
    /\ \A c \in dispatched : IsRemoval(c) /\ c.by = desk.id => desk.pending
    /\ \A b, c \in dispatched :
         IsRemoval(b) /\ b.by = desk.id /\ IsRemoval(c) /\ c.by = desk.id => b = c

StudioInv == CallsInv /\ Mounted /\ OneRemoval /\ cropped \subseteq agreed
TabInv == CanvasInv /\ HeldOrStrayed /\ StudioInv
-----------------------------------------------------------------------------
(***************************************************************************)
(* The canvas page.                                                        *)
(***************************************************************************)
\* A second event of a press follows the first (renderer.ts, the hooks a press fires).
LEMMA AppendToOne ==
  ASSUME NEW a, NEW b
  PROVE  Append(<<a>>, b) = <<a, b>>
<1> DEFINE S == {a, b}
           s == <<a>>
           t == <<a, b>>
<1>1. s \in Seq(S) /\ Len(s) = 1 /\ s[1] = a /\ b \in S
  OBVIOUS
<1>2. t \in Seq(S) /\ Len(t) = 2 /\ t[1] = a /\ t[2] = b
  OBVIOUS
<1> HIDE DEF S, s, t
<1>3. /\ Append(s, b) \in Seq(S) /\ Len(Append(s, b)) = Len(s) + 1
      /\ \A i \in 1..Len(s) : Append(s, b)[i] = s[i]
      /\ Append(s, b)[Len(s) + 1] = b
  BY <1>1, AppendProperties
<1>4. Len(Append(s, b)) = 2 /\ \A i \in 1..2 : Append(s, b)[i] = t[i]
  BY <1>1, <1>2, <1>3
<1>5. Append(s, b) = t
  BY <1>2, <1>3, <1>4, SeqEqual
<1> QED
  BY <1>5 DEF s, t

\* A press and what it fires (renderer.ts onPointerDown, onPointerMove, onPointerUp).
LEMMA PressKeepsOne ==
  ASSUME OnePress,
         \/ UNCHANGED gestVars
         \/ \E type, button, c : PointerDown(type, button, c)
         \/ Drag \/ Pinch \/ LongPress \/ PointerCancel
         \/ \E c : PointerUp(c)
         \/ \E c : Arrow(c)
         \/ \E down, focused : SpaceKey(down, focused)
  PROVE  OnePress'
<1>1. /\ Append(<<>>, "pinch") = <<"pinch">> /\ Append(<<>>, "tap") = <<"tap">>
      /\ Append(<<>>, "longPress") = <<"longPress">>
      /\ Append(<<"longPress">>, "pinch") = <<"longPress", "pinch">>
  <2>1. Append(<<>>, "pinch") = <<"pinch">>
    OBVIOUS
  <2>2. Append(<<>>, "tap") = <<"tap">>
    OBVIOUS
  <2>3. Append(<<>>, "longPress") = <<"longPress">>
    OBVIOUS
  <2>4. Append(<<"longPress">>, "pinch") = <<"longPress", "pinch">>
    BY AppendToOne
  <2> QED
    BY <2>1, <2>2, <2>3, <2>4
<1>2. Last(<<"pinch">>) = "pinch" /\ Last(<<"longPress", "pinch">>) = "pinch"
  BY DEF Last
<1>3. /\ <<>> \in Untapped /\ <<"longPress">> \in Untapped
      /\ \A f \in Untapped : f # <<>> => Last(f) = "pinch" \/ f = <<"longPress">>
      /\ <<"pinch">> \in Untapped /\ <<"longPress", "pinch">> \in Untapped
  BY <1>2 DEF Untapped
<1>4. ASSUME NEW type, NEW button, NEW c, PointerDown(type, button, c)
      PROVE  OnePress'
  <2>1. CASE pointers = 0
    <3>1. pointers' = 1 /\ moved' = FALSE /\ fired' = <<>>
      BY <1>4, <2>1 DEF PointerDown
    <3>2. pointers' \in Nat /\ ~(pointers' > 1)
      BY <3>1
    <3> QED
      BY <1>3, <3>1, <3>2 DEF OnePress
  <2>2. CASE pointers = 1
    <3>1. fired' = (IF fired = <<>> \/ Last(fired) # "pinch" THEN Append(fired, "pinch") ELSE fired)
      BY <1>4, <2>2 DEF PointerDown
    <3>2. pointers' = 2 /\ timer' = {} /\ moved' = (moved \/ pointers = 1)
      <4>1. pointers # 0
        BY <2>2
      <4> QED
        BY <1>4, <2>2, <4>1 DEF PointerDown
    <3>3. fired \in Untapped
      BY <2>2 DEF OnePress
    <3>4. fired' \in Untapped
      BY <1>1, <1>3, <3>1, <3>3
    <3>5. pointers' \in Nat /\ pointers' # 1
      BY <3>2
    <3> QED
      BY <2>2, <3>2, <3>4, <3>5 DEF OnePress
  <2>3. CASE pointers > 1
    <3>1. pointers \in Nat /\ pointers # 0 /\ pointers # 1 /\ moved /\ pointers > 0 /\ timer = {}
      BY <2>3 DEF OnePress
    <3>2. /\ pointers' = pointers + 1 /\ timer' = timer /\ fired' = fired
          /\ moved' = (moved \/ pointers = 1)
      BY <1>4, <3>1 DEF PointerDown
    <3>3. pointers' \in Nat /\ pointers' # 1
      BY <3>1, <3>2
    <3> QED
      BY <3>1, <3>2, <3>3 DEF OnePress
  <2> QED
    BY <2>1, <2>2, <2>3 DEF OnePress
<1>5. CASE LongPress
  <2>1. pointers = 1 /\ ~moved /\ fired = <<>> /\ timer' = {} /\ pointers' = pointers
    BY <1>5 DEF LongPress, OnePress
  <2>2. CASE timer = {Off}
    BY <1>5, <2>1, <2>2 DEF LongPress, OnePress
  <2>3. CASE timer # {Off}
    <3>1. moved' = TRUE /\ fired' = <<"longPress">>
      BY <1>1, <1>5, <2>1, <2>3 DEF LongPress
    <3> QED
      BY <1>3, <2>1, <3>1 DEF OnePress
  <2> QED
    BY <2>2, <2>3
<1>6. ASSUME NEW c, PointerUp(c)
      PROVE  OnePress'
  <2>1. /\ pointers > 0 /\ pointers' = pointers - 1 /\ timer' = {} /\ moved' = moved
        /\ fired' = IF IsTap(c) THEN Append(fired, "tap") ELSE fired
    BY <1>6 DEF PointerUp
  <2>2. CASE IsTap(c)
    <3>1. pointers' = 0 /\ fired' = <<"tap">>
      BY <1>1, <2>1, <2>2 DEF IsTap, OnePress
    <3>2. pointers' \in Nat /\ ~(pointers' > 0) /\ ~(pointers' > 1) /\ pointers' # 1
      BY <3>1
    <3> QED
      BY <2>1, <3>1, <3>2 DEF OnePress
  <2>3. CASE ~IsTap(c)
    <3>1. fired' = fired
      BY <2>1, <2>3
    <3>2. /\ pointers' \in Nat /\ (pointers' = 1 => pointers > 1) /\ (pointers' > 1 => pointers > 1)
      BY <2>1 DEF OnePress
    <3> QED
      BY <2>1, <3>1, <3>2 DEF OnePress
  <2> QED
    BY <2>2, <2>3
<1>7. CASE PointerCancel
  <2>1. /\ pointers > 0 /\ pointers' = pointers - 1 /\ timer' = {} /\ moved' = moved
        /\ fired' = fired
    BY <1>7 DEF PointerCancel
  <2> QED
    BY <2>1 DEF OnePress
<1>8. CASE Drag
  <2>1. timer' = {} /\ moved' = TRUE /\ pointers' = pointers /\ pointers = 1 /\ fired' = fired
    BY <1>8 DEF Drag, OnePress
  <2>2. ~(pointers > 1) /\ pointers > 0
    BY <2>1
  <2> QED
    BY <2>1, <2>2 DEF OnePress
<1>9. CASE \/ UNCHANGED gestVars \/ Pinch \/ \E c : Arrow(c) \/ \E down, focused : SpaceKey(down, focused)
  <2>1. UNCHANGED <<pointers, moved, timer, fired>>
    BY <1>9 DEF gestVars, Pinch, Arrow, SpaceKey
  <2> QED
    BY <2>1 DEF OnePress
<1> QED
  BY <1>4, <1>5, <1>6, <1>7, <1>8, <1>9

\* A pixel panel that opens on a cell, closes, or stays (usePixelInspect.ts).
PanelMoves ==
  \/ UNCHANGED <<inspect, author, lookups>>
  \/ \E c : OpenInspect(c)
  \/ inspect' = Off /\ lookups' = Voided(lookups)

\* What the panel does keeps its author that of its pixel: opening and closing it void the
\* tokens of the lookups still on their way (inspectReqRef).
LEMMA PanelKeepsAuthor ==
  ASSUME CurrentIsShown, PanelMoves
  PROVE  CurrentIsShown'
<1>1. \A l \in Voided(lookups) : Lookup(l) /\ ~l.live
  <2> SUFFICES ASSUME NEW m \in lookups
               PROVE  /\ Lookup([m EXCEPT !.live = FALSE])
                      /\ ~[m EXCEPT !.live = FALSE].live
    BY DEF Voided
  <2>1. m \in [cell : {m.cell}, live : BOOLEAN]
    BY DEF CurrentIsShown, Lookup
  <2>2. [m EXCEPT !.live = FALSE] \in [cell : {m.cell}, live : BOOLEAN]
        /\ [m EXCEPT !.live = FALSE].live = FALSE
    BY <2>1
  <2>3. [m EXCEPT !.live = FALSE].cell = m.cell
    BY <2>1
  <2> QED
    BY <2>2, <2>3 DEF Lookup
<1>2. CASE UNCHANGED <<inspect, author, lookups>>
  BY <1>2 DEF CurrentIsShown, AuthorIsOfInspected
<1>3. ASSUME NEW c, OpenInspect(c)
      PROVE  CurrentIsShown'
  <2>1. inspect' = c /\ author' \in {"nobody", "loading"}
    BY <1>3 DEF OpenInspect
  <2>2. lookups' \subseteq Voided(lookups) \cup {[cell |-> c, live |-> TRUE]}
    BY <1>3 DEF OpenInspect
  <2>3. Lookup([cell |-> c, live |-> TRUE]) /\ [cell |-> c, live |-> TRUE].cell = c
    BY DEF Lookup
  <2>4. \A l \in lookups' : Lookup(l) /\ (l.live => l.cell = inspect')
    BY <1>1, <2>1, <2>2, <2>3
  <2> QED
    BY <2>1, <2>4 DEF CurrentIsShown, AuthorIsOfInspected
<1>4. CASE inspect' = Off /\ lookups' = Voided(lookups)
  BY <1>1, <1>4 DEF CurrentIsShown, AuthorIsOfInspected
<1> QED
  BY <1>2, <1>3, <1>4 DEF PanelMoves

\* The renderer's callbacks open and close the panel, and never arm continuous paint
\* (CanvasView.tsx onTap, onLongPress, onHover, onCursorMove, onActivate).
LEMMA HooksAreQuiet ==
  ASSUME NEW h, Fire(h)
  PROVE  PanelMoves /\ UNCHANGED <<painting, spaceDown>>
<1>1. \A c : OnTap(c) => PanelMoves /\ UNCHANGED painting
  BY DEF OnTap, PanelMoves, Modes, Keep, panelVars, modeVars
<1>2. \A c : OnLongPress(c) => PanelMoves /\ UNCHANGED painting
  BY DEF OnLongPress, PanelMoves, Modes
<1>3. \A c : OnRight(c) \/ OnHover(c) \/ OnCursorMove(c) => PanelMoves /\ UNCHANGED painting
  BY DEF OnRight, OnHover, OnCursorMove, PanelMoves, Modes, Keep, panelVars, modeVars
<1>4. \A c : OnActivate(c) => PanelMoves /\ UNCHANGED painting
  BY DEF OnActivate, PanelMoves, Modes, Keep, panelVars
<1>5. Keep(modeVars) /\ Keep(panelVars) => PanelMoves /\ UNCHANGED painting
  BY DEF PanelMoves, Keep, panelVars, modeVars
<1> QED
  BY <1>1, <1>2, <1>3, <1>4, <1>5 DEF Fire

\* Entering draw mode, cancelling and validating (CanvasView.tsx).
LEMMA DrawingIsQuiet ==
  /\ \A t, p : EnterDraw(t, p) => PanelMoves /\ painting' = p
  /\ Cancel => PanelMoves /\ UNCHANGED painting
  /\ Validate => PanelMoves /\ UNCHANGED painting
<1>1. \A t, p : EnterDraw(t, p) => PanelMoves /\ painting' = p
  BY DEF EnterDraw, CloseInspect, PanelMoves, Modes, Keep, panelVars
<1>2. Cancel => PanelMoves /\ UNCHANGED painting
  BY DEF Cancel, CloseInspect, PanelMoves, Modes
<1>3. Validate => PanelMoves /\ UNCHANGED painting
  BY DEF Validate, PanelMoves, panelVars, modeVars
<1> QED
  BY <1>1, <1>2, <1>3

\* What a press fires, what paint needs and whom the panel names, kept by whatever the
\* viewer, the renderer's timer or the dock does.
QuietStep == PanelMoves /\ UNCHANGED <<painting, spaceDown>>
LEMMA PressesAreOne ==
  ASSUME CanvasInv, Press
  PROVE  CanvasInv'
<1>1. QuietStep
  <2>1. ASSUME NEW t, NEW b, NEW c, PressDown(t, b, c)
        PROVE  QuietStep
    BY <2>1 DEF PressDown, QuietStep, PanelMoves, Modes, Keep, panelVars
  <2>2. ASSUME NEW h, Fire(h)
        PROVE  QuietStep
    BY <2>2, HooksAreQuiet DEF QuietStep
  <2> QED
    BY <2>1, <2>2 DEF Press, PressDrag, PressPinch, PressHeld, PressUp, PressLost, Survol
<1>2. OnePress'
  BY PressKeepsOne DEF CanvasInv, Press, PressDown, PressDrag, PressPinch, PressHeld, PressUp,
     PressLost, Survol, HoverIdle
<1> QED
  BY <1>1, <1>2, PanelKeepsAuthor DEF CanvasInv, QuietStep

LEMMA QuietRepeat ==
  ASSUME SpaceRepeats
  PROVE  PanelMoves /\ UNCHANGED <<painting, spaceDown>>
<1>1. UNCHANGED <<modeVars, panelVars, spaceDown>>
  BY DEF SpaceRepeats, pageVars
<1> QED
  BY <1>1 DEF PanelMoves, modeVars, panelVars

\* The same of the keys: Space arms paint and its keyup, or the blur, disarms it.
LEMMA KeysAreHeard ==
  ASSUME CanvasInv, Keyboard
  PROVE  CanvasInv'
<1>1. OnePress'
  <2>1. \/ UNCHANGED gestVars \/ \E c : Arrow(c) \/ \E down, focused : SpaceKey(down, focused)
    BY DEF Keyboard, ArrowKey, SpaceDown, SpaceRepeats, SpaceUp, Blur, Escape, ToolKey, EnterKey
  <2> QED
    BY <2>1, PressKeepsOne DEF CanvasInv
<1>2. PanelMoves /\ (painting' => spaceDown')
  <2>1. ASSUME NEW c \in Cells, ArrowKey(c)
        PROVE  PanelMoves /\ (painting' => spaceDown')
    BY <2>1, HooksAreQuiet DEF ArrowKey, CanvasInv
  <2>2. CASE SpaceDown
    BY <2>2, DrawingIsQuiet DEF SpaceDown, PanelMoves, Keep, panelVars
  <2>3. CASE SpaceUp \/ Blur
    BY <2>3 DEF SpaceUp, Blur, Modes, PanelMoves, Keep, panelVars
  <2>7. CASE SpaceRepeats
    BY <2>7, QuietRepeat DEF CanvasInv
  <2>4. CASE Escape
    BY <2>4, DrawingIsQuiet DEF Escape, CloseInspect, Modes, PanelMoves, Keep, panelVars, modeVars, CanvasInv
  <2>5. ASSUME NEW k, ToolKey(k)
        PROVE  PanelMoves /\ (painting' => spaceDown')
    BY <2>5, DrawingIsQuiet DEF ToolKey, Modes, PanelMoves, Keep, panelVars, CanvasInv
  <2>6. CASE EnterKey
    BY <2>6, DrawingIsQuiet DEF EnterKey, CanvasInv
  <2> QED
    BY <2>1, <2>2, <2>3, <2>4, <2>5, <2>6, <2>7 DEF Keyboard
<1> QED
  BY <1>1, <1>2, PanelKeepsAuthor DEF CanvasInv

\* The same of the dock, of the two-tap moderation and of the trip to Twitch, from which
\* nothing of the page comes back.
LEMMA DockIsQuiet ==
  ASSUME CanvasInv, Dock
  PROVE  CanvasInv'
<1>1. ASSUME NEW sess, TwitchTrip(sess)
      PROVE  CanvasInv'
  <2>1. /\ pointers' = 0 /\ moved' = FALSE /\ timer' = {} /\ fired' = <<>>
        /\ painting' = FALSE /\ inspect' = Off /\ lookups' = {}
    BY <1>1 DEF TwitchTrip, Modes
  <2>2. pointers' \in Nat /\ ~(pointers' > 0) /\ ~(pointers' > 1) /\ pointers' # 1
    BY <2>1
  <2>3. <<>> \in Untapped
    BY DEF Untapped
  <2> QED
    BY <2>1, <2>2, <2>3 DEF CanvasInv, OnePress, CurrentIsShown, AuthorIsOfInspected
<1>2. CASE ~ \E sess : TwitchTrip(sess)
  <2>1. UNCHANGED gestVars /\ QuietStep
    <3>1. CASE MainButton \/ CancelButton
      BY <3>1, DrawingIsQuiet DEF MainButton, CancelButton, QuietStep
    <3>2. CASE CloseButton
      BY <3>2, DrawingIsQuiet DEF CloseButton, CloseInspect, QuietStep, PanelMoves, Keep, modeVars
    <3>3. ASSUME NEW col, Swatch(col)
          PROVE  UNCHANGED gestVars /\ QuietStep
      BY <3>3 DEF Swatch, QuietStep, PanelMoves, Modes, Keep, panelVars
    <3>4. CASE RunModAction \/ DismissModal \/ \E a : ArmAction(a)
      BY <3>4 DEF RunModAction, DismissModal, ArmAction, QuietStep, PanelMoves, panelVars, modeVars
    <3> QED
      BY <1>2, <3>1, <3>2, <3>3, <3>4 DEF Dock
  <2> QED
    BY <2>1, PressKeepsOne, PanelKeepsAuthor DEF CanvasInv, QuietStep
<1> QED
  BY <1>1, <1>2

\* The same of what arrives: a lookup answers for the cell it was asked for, and only a
\* current one is listened to.
LEMMA ArrivalsAreQuiet ==
  ASSUME CanvasInv, Arrivals
  PROVE  CanvasInv'
<1>1. UNCHANGED <<gestVars, painting, spaceDown>>
  BY DEF Arrivals, AuthorAnswers, ModActionReturns, GaugeFrame, Acked, RefusedBanned,
     PermissionChanges, EarnTier, TierSnapshot, ClaimAll, ClaimLands, ClaimFails, SessionEnds,
     Keeping, TierFrame, Quiet, modeVars
<1>2. CurrentIsShown'
  <2>1. ASSUME NEW l \in lookups, NEW who \in {l.cell, "nobody"}, AuthorAnswers(l, who)
        PROVE  CurrentIsShown'
    <3>1. /\ lookups' = lookups \ {l} /\ inspect' = inspect
          /\ author' = IF l.live THEN who ELSE author
      BY <2>1 DEF AuthorAnswers
    <3>2. l.live => l.cell = inspect
      BY DEF CanvasInv, CurrentIsShown
    <3> QED
      BY <3>1, <3>2 DEF CanvasInv, CurrentIsShown, AuthorIsOfInspected
  <2>2. ASSUME NEW call, NEW ok, ModActionReturns(call, ok)
        PROVE  CurrentIsShown'
    <3>1. CASE ok
      BY <2>2, <3>1, PanelKeepsAuthor
         DEF ModActionReturns, PanelMoves, CanvasInv
    <3>2. CASE ~ok
      BY <2>2, <3>2 DEF ModActionReturns, CanvasInv, CurrentIsShown, AuthorIsOfInspected
    <3> QED
      BY <3>1, <3>2
  <2>3. CASE UNCHANGED <<inspect, author, lookups>>
    BY <2>3, PanelKeepsAuthor DEF PanelMoves, CanvasInv
  <2> QED
    BY <2>1, <2>2, <2>3
       DEF Arrivals, GaugeFrame, Acked, RefusedBanned, PermissionChanges, EarnTier,
           TierSnapshot, ClaimAll, ClaimLands, ClaimFails, SessionEnds, Keeping, TierFrame,
           Quiet, panelVars
<1> QED
  BY <1>1, <1>2, PressKeepsOne DEF CanvasInv

\* The canvas page keeps its promises, whatever its events and their order.
LEMMA CanvasKeeps ==
  ASSUME CanvasInv, Next \/ UNCHANGED vars
  PROVE  CanvasInv'
<1>1. CASE Transport
  <2>1. UNCHANGED <<gestVars, painting, spaceDown, panelVars>>
    BY <1>1 DEF Transport, Mounts, Ticket, Opens, Welcomed, Drops, Backoff, GoesOffline,
       GoesOnline, Flips, NetOnly, Quiet, modeVars
  <2> QED
    BY <2>1, PressKeepsOne, PanelKeepsAuthor DEF CanvasInv, PanelMoves, panelVars
<1>2. CASE Render \/ FlashEnds \/ UNCHANGED vars
  <2>1. UNCHANGED <<gestVars, painting, spaceDown, panelVars>>
    BY <1>2 DEF Render, FlashEnds, vars, pageVars, modeVars
  <2> QED
    BY <2>1, PressKeepsOne, PanelKeepsAuthor DEF CanvasInv, PanelMoves, panelVars
<1> QED
  BY <1>1, <1>2, PressesAreOne, KeysAreHeard, DockIsQuiet, ArrivalsAreQuiet DEF Next

\* What touches Space: its key, the window's blur, and the trip to Twitch, from which the
\* page comes back anew (renderer.ts onKeyDown, onKeyUp; useCanvasKeyboard.ts).
TouchesSpace == \/ SpaceDown \/ SpaceRepeats \/ SpaceUp \/ Blur
                \/ \E sess : TwitchTrip(sess)
LEMMA OthersLeaveSpace ==
  ASSUME Next
  PROVE  UNCHANGED <<spaceHeld, spaceDown>> \/ TouchesSpace
<1>1. CASE Press
  <2>1. UNCHANGED spaceDown
    BY <1>1 DEF Press, PressDown, PressDrag, PressPinch, PressHeld, PressUp, PressLost, Survol, Fire
  <2>2. UNCHANGED spaceHeld
    BY <1>1 DEF Press, PressDown, PressDrag, PressPinch, PressHeld, PressUp, PressLost, Survol,
       PointerDown, Drag, Pinch, LongPress, PointerUp, PointerCancel, HoverIdle, gestVars
  <2> QED
    BY <2>1, <2>2
<1>2. CASE Keyboard
  BY <1>2 DEF Keyboard, TouchesSpace, ArrowKey, Arrow, Fire, Escape, ToolKey, EnterKey, gestVars
<1>3. CASE Dock
  BY <1>3 DEF Dock, TouchesSpace, MainButton, CancelButton, CloseButton, Swatch, ArmAction,
     RunModAction, DismissModal, gestVars
<1>4. CASE Arrivals
  BY <1>4 DEF Arrivals, AuthorAnswers, ModActionReturns, GaugeFrame, Acked, RefusedBanned,
     PermissionChanges, EarnTier, TierSnapshot, ClaimAll, ClaimLands, ClaimFails, SessionEnds,
     Keeping, TierFrame, Quiet, gestVars
<1>5. CASE Transport
  BY <1>5 DEF Transport, Mounts, Ticket, Opens, Welcomed, Drops, Backoff, GoesOffline,
     GoesOnline, Flips, NetOnly, Quiet, gestVars
<1>6. CASE Render \/ FlashEnds
  BY <1>6 DEF Render, FlashEnds, gestVars
<1> QED
  BY <1>1, <1>2, <1>3, <1>4, <1>5, <1>6 DEF Next

\* A keyup that the renderer does not hear finds the focus off its canvas.
LEMMA SpaceIsHeard ==
  ASSUME HeldOrStrayed, (Next /\ Strays) \/ UNCHANGED <<vars, strayed>>
  PROVE  HeldOrStrayed'
<1>1. CASE UNCHANGED <<vars, strayed>>
  BY <1>1 DEF HeldOrStrayed, vars, gestVars
<1>2. CASE Next /\ Strays
  <2> SUFFICES ASSUME spaceHeld', ~spaceDown'
               PROVE  strayed'
    BY DEF HeldOrStrayed
  <2>1. strayed' <=> focus' # "canvas" \/ Blur \/ strayed
    BY <1>2 DEF Strays
  <2>2. CASE SpaceUp
    <3>1. focus' = focus /\ spaceHeld' = IF focus = "canvas" THEN FALSE ELSE spaceHeld
      BY <2>2 DEF SpaceUp, SpaceKey, Modes
    <3> QED
      BY <2>1, <3>1
  <2>3. CASE SpaceDown \/ SpaceRepeats \/ \E sess : TwitchTrip(sess)
    <3>1. (SpaceDown => spaceDown') /\ (SpaceRepeats => spaceDown')
      <4>1. SpaceDown => spaceDown'
        BY DEF SpaceDown
      <4>2. ASSUME SpaceRepeats
            PROVE  spaceDown'
        <5>1. spaceDown
          BY <4>2 DEF SpaceRepeats
        <5>2. spaceDown' = spaceDown
          BY <4>2, QuietRepeat
        <5> QED
          BY <5>1, <5>2
      <4> QED
        BY <4>1, <4>2
    <3>2. \A sess : TwitchTrip(sess) => ~spaceHeld'
      BY DEF TwitchTrip
    <3> QED
      BY <2>3, <3>1, <3>2
  <2>4. CASE UNCHANGED <<spaceHeld, spaceDown>>
    BY <2>1, <2>4 DEF HeldOrStrayed
  <2> QED
    BY <1>2, <2>1, <2>2, <2>3, <2>4, OthersLeaveSpace DEF TouchesSpace
<1> QED
  BY <1>1, <1>2-----------------------------------------------------------------------------
(***************************************************************************)
(* The studio.                                                             *)
(***************************************************************************)
\* The console stays the one it was, or another takes its place that has sent nothing yet.
DeskMoves ==
  \/ desk'.id = desk.id /\ desk'.pending = desk.pending
  \/ desk'.id = 0
  \/ desk'.id > mounts
NoNewRemoval == \A c \in dispatched' : IsRemoval(c) => c \in dispatched

\* A step that sends no removal leaves the console with the one it had
\* (CrisisController.tsx, the "idempotency guard").
LEMMA OneRemovalStays ==
  ASSUME CallsInv, OneRemoval, Mounted, NoNewRemoval, DeskMoves
  PROVE  OneRemoval'
<1>1. CASE desk'.id = desk.id /\ desk'.pending = desk.pending
  BY <1>1 DEF OneRemoval, NoNewRemoval, IsRemoval
<1>2. CASE desk'.id = 0
  BY <1>2 DEF OneRemoval
<1>3. CASE desk'.id > mounts
  <2>1. \A c \in dispatched' : IsRemoval(c) => c.by # desk'.id
    <3> SUFFICES ASSUME NEW c \in dispatched, c.by = desk'.id
                 PROVE  FALSE
      BY DEF NoNewRemoval
    <3>1. c.by \in Nat /\ c.by <= mounts
      BY DEF CallsInv, CallInv, Call
    <3> QED
      BY <1>3, <3>1 DEF Mounted
  <2> QED
    BY <2>1 DEF OneRemoval, IsRemoval
<1> QED
  BY <1>1, <1>2, <1>3 DEF DeskMoves

\* What a component that is mounted sends is a call of its own (StudioDashboardBody.tsx,
\* CrisisController.tsx, CreateCanvasPage.tsx).
LEMMA SentIsACall ==
  ASSUME NEW kind, NEW canvas, NEW arg, NEW by \in Nat,
         CallsInv, Send(kind, canvas, arg, by), by <= mounts, mounts' = mounts,
         agreed \subseteq agreed',
         kind = "save" => /\ SaveArg(arg)
                          /\ arg.confirmed => [canvas |-> canvas, size |-> arg.size] \in agreed'
  PROVE  /\ CallsInv'
         /\ kind \notin {"ban", "wipe"} => NoNewRemoval
<1> DEFINE new == [kind |-> kind, canvas |-> canvas, arg |-> arg, by |-> by, outcome |-> "none"]
<1>1. dispatched' = dispatched \cup {new}
  BY DEF Send
<1>2. new.kind = kind /\ new.canvas = canvas /\ new.arg = arg /\ new.by = by /\ Call(new)
  BY DEF Call
<1> HIDE DEF new
<1>3. CallInv(new)'
  BY <1>2 DEF CallInv
<1>4. \A c \in dispatched : CallInv(c)'
  BY DEF CallsInv, CallInv
<1> QED
  BY <1>1, <1>2, <1>3, <1>4 DEF CallsInv, NoNewRemoval, IsRemoval

\* Calls that stay as they were keep what they promise, and those that leave owe nothing.
LEMMA FewerCalls ==
  ASSUME CallsInv, Mounted, dispatched' \subseteq dispatched, mounts' \in Nat, mounts <= mounts',
         agreed \subseteq agreed'
  PROVE  CallsInv' /\ NoNewRemoval
<1>1. ASSUME NEW c \in dispatched
      PROVE  CallInv(c)'
  <2>1. CallInv(c) /\ c.by \in Nat
    BY DEF CallsInv, CallInv, Call
  <2>2. c.by <= mounts'
    BY <2>1 DEF CallInv, Mounted
  <2> QED
    BY <2>1, <2>2 DEF CallInv
<1> QED
  BY <1>1 DEF CallsInv, NoNewRemoval

\* What touches none of this changes nothing of it.
LEMMA StudioRests ==
  ASSUME StudioInv, UNCHANGED <<form, desk, page, mounts, agreed, cropped, dispatched>>
  PROVE  StudioInv'
BY DEF StudioInv, CallsInv, CallInv, Mounted, FormInv, DeskInv, OneRemoval

\* A console that mounts has nothing under way (DeskFor, the props of CrisisController).
LEMMA DeskFresh ==
  ASSUME NEW d, NEW id \in Nat
  PROVE  Desk(DeskFor(d, id)) /\ DeskFor(d, id).id \in {0, id} /\ ~DeskFor(d, id).pending
<1>1. /\ Desk(NoDesk) /\ NoDesk.id = 0 /\ NoDesk.pending = FALSE
  BY DEF NoDesk, Desk
<1>2. /\ Desk([NoDesk EXCEPT !.id = id]) /\ [NoDesk EXCEPT !.id = id].id = id
      /\ [NoDesk EXCEPT !.id = id].pending = FALSE
  BY DEF NoDesk, Desk
<1> QED
  BY <1>1, <1>2 DEF DeskFor

\* A form that mounts shows its canvas and asks nothing (FormFor, useState of the props).
LEMMA FormFresh ==
  ASSUME NEW d, NEW id \in Nat
  PROVE  Form(FormFor(d, id)) /\ FormFor(d, id).id = id /\ FormFor(d, id).shrink = Nil
<1> DEFINE n == Shown(d).name
           s == Shown(d).size
           p == Shown(d).public
           f == FormFor(d, id)
<1>1. f = [NoForm EXCEPT !.id = id, !.name = n, !.size = s, !.public = p]
  BY DEF FormFor
<1> HIDE DEF n, s, p, f
<1>2. Form(f) /\ f.id = id /\ f.shrink = Nil
  BY <1>1 DEF NoForm, Form
<1> QED
  BY <1>2 DEF f

\* The settings form sends what it shows, and a confirmed save is the one the dialog asked
\* about (handleSubmit, handleShrinkConfirm).
LEMMA SettingsKeep ==
  ASSUME StudioInv, Settings
  PROVE  StudioInv'
<1> USE DEF StudioInv
<1>1. desk' = desk /\ mounts' = mounts /\ page' = page /\ cropped' = cropped /\ agreed \subseteq agreed'
  BY DEF Settings, EditForm, SubmitForm, ConfirmShrink, CancelShrink, SavedTimer, Reactivate,
     ToggleFreeze, FormKept, TabOnly, historyVars
<1>2. CASE \/ \E n : EditForm([form EXCEPT !.name = n])
           \/ \E n : EditForm([form EXCEPT !.size = n])
           \/ EditForm([form EXCEPT !.public = ~@])
           \/ CancelShrink \/ SavedTimer
  <2>1. dispatched' = dispatched
    BY <1>2 DEF EditForm, CancelShrink, SavedTimer
  <2>2. FormInv(form')
    <3>1. Form(form) /\ form.id <= mounts /\ (form.shrink # Nil => SaveArg(form.shrink.arg))
      BY DEF Mounted, FormInv
    <3>2. ASSUME NEW n, form' = [form EXCEPT !.name = n]
          PROVE  FormInv(form')
      BY <3>1, <3>2 DEF FormInv, Form
    <3>3. ASSUME NEW n, form' = [form EXCEPT !.size = n]
          PROVE  FormInv(form')
      BY <3>1, <3>3 DEF FormInv, Form
    <3>4. ASSUME NEW n, form' = [form EXCEPT !.public = n]
          PROVE  FormInv(form')
      BY <3>1, <3>4 DEF FormInv, Form
    <3>5. ASSUME NEW n, form' = [form EXCEPT !.shrink = Nil, !.size = n]
          PROVE  FormInv(form')
      BY <3>1, <3>5 DEF FormInv, Form
    <3>6. ASSUME NEW n, form' = [form EXCEPT !.timers = n, !.save = "idle"]
          PROVE  FormInv(form')
      BY <3>1, <3>6 DEF FormInv, Form
    <3> QED
      BY <1>2, <3>2, <3>3, <3>4, <3>5, <3>6 DEF EditForm, CancelShrink, SavedTimer
  <2>3. Mounted'
    BY <1>1, <2>2 DEF Mounted, FormInv, DeskInv
  <2> QED
    BY <1>1, <2>1, <2>3, FewerCalls, OneRemovalStays DEF DeskMoves, Mounted
<1>3. ASSUME NEW kind, NEW canvas, NEW arg, NEW by \in Nat, Send(kind, canvas, arg, by),
             by <= mounts, kind \notin {"ban", "wipe"},
             kind = "save" => /\ SaveArg(arg)
                              /\ arg.confirmed => [canvas |-> canvas, size |-> arg.size] \in agreed',
             form' \in {form, [form EXCEPT !.save = "saving"]}
      PROVE  StudioInv'
  <2>1. CallsInv' /\ NoNewRemoval
    BY <1>1, <1>3, SentIsACall
  <2>2. FormInv(form')
    <3>1. Form(form) /\ form.id <= mounts /\ (form.shrink # Nil => SaveArg(form.shrink.arg))
      BY DEF Mounted, FormInv
    <3>2. CASE form' = [form EXCEPT !.save = "saving"]
      BY <3>1, <3>2 DEF FormInv, Form
    <3>3. CASE form' = form
      BY <3>1, <3>3 DEF FormInv
    <3> QED
      BY <1>3, <3>2, <3>3
  <2>3. Mounted'
    BY <1>1, <2>2 DEF Mounted, FormInv, DeskInv
  <2> QED
    BY <1>1, <2>1, <2>3, OneRemovalStays DEF DeskMoves
<1>4. CASE SubmitForm
  <2> DEFINE arg == [name |-> Changed(form.name, Blank),
                     public |-> Changed(form.public, Shown(docs).public),
                     size |-> Changed(form.size, Shown(docs).size), confirmed |-> FALSE]
  <2>1. SaveArg(arg) /\ ~arg.confirmed
    BY DEF SaveArg
  <2>2. Send("save", docs.active, arg, form.id) /\ form' = [form EXCEPT !.save = "saving"]
    BY <1>4 DEF SubmitForm
  <2>3. form.id \in Nat /\ form.id <= mounts
    BY DEF Mounted, FormInv, Form
  <2> HIDE DEF arg
  <2>4. "save" \notin {"ban", "wipe"}
    OBVIOUS
  <2>5. arg.confirmed => [canvas |-> docs.active, size |-> arg.size] \in agreed'
    BY <2>1
  <2> QED
    BY <1>3, <2>1, <2>2, <2>3, <2>4, <2>5
<1>5. CASE ConfirmShrink
  <2> DEFINE arg == [form.shrink.arg EXCEPT !.confirmed = TRUE]
  <2>1. SaveArg(form.shrink.arg)
    BY <1>5 DEF ConfirmShrink, ShrinkAsked, Mounted, FormInv
  <2>2. SaveArg(arg) /\ arg.size = form.shrink.arg.size
    BY <2>1 DEF SaveArg
  <2>3. Send("save", form.shrink.canvas, arg, form.id) /\ form' = [form EXCEPT !.save = "saving"]
    BY <1>5 DEF ConfirmShrink
  <2>4. form.id \in Nat /\ form.id <= mounts
    BY DEF Mounted, FormInv, Form
  <2>5. [canvas |-> form.shrink.canvas, size |-> form.shrink.arg.size] \in agreed'
    BY <1>5 DEF ConfirmShrink
  <2> HIDE DEF arg
  <2> QED
    BY <1>3, <2>2, <2>3, <2>4, <2>5
<1>6. ASSUME NEW c, Reactivate(c)
      PROVE  StudioInv'
  <2>1. Send("activate", c, Nil, 0) /\ form' = form
    BY <1>6 DEF Reactivate
  <2>2. 0 \in Nat /\ 0 <= mounts
    BY DEF Mounted
  <2>3. "activate" \notin {"ban", "wipe"} /\ "activate" # "save" /\ form' \in {form, [form EXCEPT !.save = "saving"]}
    BY <2>1
  <2> QED
    BY <1>3, <2>1, <2>2, <2>3
<1>7. CASE ToggleFreeze
  <2>1. PICK on : Send("freeze", docs.active, on, page.id) /\ form' = form
    BY <1>7 DEF ToggleFreeze
  <2>2. page.id \in Nat /\ page.id <= mounts
    BY DEF Mounted
  <2>3. "freeze" \notin {"ban", "wipe"} /\ "freeze" # "save" /\ form' \in {form, [form EXCEPT !.save = "saving"]}
    BY <2>1
  <2> QED
    BY <1>3, <2>1, <2>2, <2>3
<1> QED
  BY <1>2, <1>4, <1>5, <1>6, <1>7 DEF Settings

\* The dashboard mounts with a form and a console of its own, that have sent nothing.
LEMMA LandsFresh ==
  ASSUME mounts \in Nat, Land
  PROVE  Mounted' /\ DeskMoves /\ mounts' = mounts + 3
<1>1. /\ page' = [at |-> "dashboard", id |-> mounts + 1] /\ form' = FormFor(docs', mounts + 2)
      /\ desk' = DeskFor(docs', mounts + 3) /\ mounts' = mounts + 3
  BY DEF Land
<1>2. page'.id = mounts + 1
  BY <1>1
<1>3. Form(form') /\ form'.id = mounts + 2 /\ form'.shrink = Nil
  BY <1>1, FormFresh
<1>4. FormInv(form)'
  <2>1. form'.id <= mounts'
    BY <1>1, <1>3
  <2> QED
    BY <1>3, <2>1 DEF FormInv
<1>5. Desk(desk') /\ (desk'.id = 0 \/ desk'.id = mounts + 3)
  BY <1>1, DeskFresh
<1>6. /\ desk'.id <= mounts' /\ (desk'.id = 0 \/ desk'.id > mounts)
      /\ mounts' \in Nat /\ page'.id \in Nat /\ page'.id <= mounts'
  BY <1>1, <1>2, <1>5
<1> QED
  BY <1>1, <1>4, <1>5, <1>6 DEF Mounted, DeskInv, DeskMoves

\* The creation page replaces the dashboard and its console (CreateCanvasPage.tsx).
LEMMA CreationKeeps ==
  ASSUME StudioInv, Creation
  PROVE  StudioInv'
<1> USE DEF StudioInv
<1>1. CASE OpenCreate
  <2>1. /\ page' = [at |-> "create", id |-> mounts + 1] /\ mounts' = mounts + 1
        /\ form' = NoForm /\ desk' = NoDesk /\ dispatched' = dispatched
        /\ agreed' = agreed /\ cropped' = cropped
    BY <1>1 DEF OpenCreate, historyVars
  <2>2. page'.id = mounts + 1 /\ mounts \in Nat
    BY <2>1 DEF Mounted
  <2>3. Form(form') /\ form'.id = 0 /\ form'.shrink = Nil
    BY <2>1 DEF NoForm, Form
  <2>4. Desk(desk') /\ desk'.id = 0
    BY <2>1 DEF NoDesk, Desk
  <2>5. Mounted' /\ DeskMoves
    BY <2>1, <2>2, <2>3, <2>4 DEF Mounted, FormInv, DeskInv, DeskMoves
  <2>6. mounts' \in Nat /\ mounts <= mounts'
    BY <2>1, <2>2
  <2> QED
    BY <2>1, <2>5, <2>6, FewerCalls, OneRemovalStays
<1>2. CASE BackToDashboard
  <2>1. Mounted' /\ DeskMoves /\ mounts' = mounts + 3
    BY <1>2, LandsFresh DEF BackToDashboard, Mounted
  <2>2. mounts' \in Nat /\ mounts <= mounts'
    BY <2>1 DEF Mounted
  <2>3. dispatched' = dispatched /\ agreed' = agreed /\ cropped' = cropped
    BY <1>2 DEF BackToDashboard, historyVars
  <2> QED
    BY <2>1, <2>2, <2>3, FewerCalls, OneRemovalStays
<1>3. CASE SubmitCreation
  <2>1. Send("create", Nil, CreateArgs, page.id) /\ UNCHANGED <<form, desk, page, mounts, agreed, cropped>>
    BY <1>3 DEF SubmitCreation, TabOnly, historyVars
  <2>2. page.id \in Nat /\ page.id <= mounts /\ "create" \notin {"ban", "wipe", "save"}
    BY DEF Mounted
  <2>3. CallsInv' /\ NoNewRemoval
    BY <2>1, <2>2, SentIsACall
  <2>4. Mounted' /\ DeskMoves
    BY <2>1 DEF Mounted, FormInv, DeskInv, DeskMoves
  <2> QED
    BY <2>1, <2>3, <2>4, OneRemovalStays
<1>4. CASE \E f : EditCreation(f)
  <2>1. UNCHANGED <<form, desk, page, mounts, agreed, cropped, dispatched>>
    BY <1>4 DEF EditCreation, TabOnly, historyVars
  <2> QED
    BY <2>1, StudioRests
<1> QED
  BY <1>1, <1>2, <1>3, <1>4 DEF Creation

\* What the console shows may change while a removal is on its way; that it waits may not
\* (CrisisController.tsx cancelMode, the pick and the undo list).
LEMMA ConsoleEdits ==
  ASSUME Mounted,
         \E n, m : desk' \in {desk, [desk EXCEPT !.pick = n], [desk EXCEPT !.target = n],
                              [desk EXCEPT !.region = n], [desk EXCEPT !.mods = n],
                              [desk EXCEPT !.row = n], [desk EXCEPT !.restoring = n],
                              [desk EXCEPT !.pick = Nil, !.target = Nil, !.region = Nil],
                              [desk EXCEPT !.restoring = Nil, !.row = Nil, !.restored = m]}
  PROVE  Desk(desk') /\ desk'.id = desk.id /\ desk'.pending = desk.pending
<1>1. Desk(desk)
  BY DEF Mounted, DeskInv
<1>2. PICK n, m : desk' \in {desk, [desk EXCEPT !.pick = n], [desk EXCEPT !.target = n],
                              [desk EXCEPT !.region = n], [desk EXCEPT !.mods = n],
                              [desk EXCEPT !.row = n], [desk EXCEPT !.restoring = n],
                              [desk EXCEPT !.pick = Nil, !.target = Nil, !.region = Nil],
                              [desk EXCEPT !.restoring = Nil, !.row = Nil, !.restored = m]}
  OBVIOUS
<1>3. CASE desk' = desk
  BY <1>1, <1>3
<1>4. CASE desk' = [desk EXCEPT !.pick = n]
  BY <1>1, <1>4 DEF Desk
<1>5. CASE desk' = [desk EXCEPT !.target = n]
  BY <1>1, <1>5 DEF Desk
<1>6. CASE desk' = [desk EXCEPT !.region = n]
  BY <1>1, <1>6 DEF Desk
<1>7. CASE desk' = [desk EXCEPT !.mods = n]
  BY <1>1, <1>7 DEF Desk
<1>8. CASE desk' = [desk EXCEPT !.row = n]
  BY <1>1, <1>8 DEF Desk
<1>9. CASE desk' = [desk EXCEPT !.restoring = n]
  BY <1>1, <1>9 DEF Desk
<1>10. CASE desk' = [desk EXCEPT !.pick = Nil, !.target = Nil, !.region = Nil]
  BY <1>1, <1>10 DEF Desk
<1>11. CASE desk' = [desk EXCEPT !.restoring = Nil, !.row = Nil, !.restored = m]
  BY <1>1, <1>11 DEF Desk
<1> QED
  BY <1>2, <1>3, <1>4, <1>5, <1>6, <1>7, <1>8, <1>9, <1>10, <1>11

\* A removal is confirmed by a console that has none on its way (confirmBan, confirmWipe).
LEMMA ConfirmedOnce ==
  ASSUME StudioInv, NEW kind, NEW arg, ~desk.pending, desk' = [desk EXCEPT !.pending = TRUE],
         kind \in {"ban", "wipe"}, Send(kind, docs.active, arg, desk.id),
         UNCHANGED <<form, page, mounts, agreed, cropped>>
  PROVE  StudioInv'
<1>1. Desk(desk) /\ desk.id \in Nat /\ desk.id <= mounts
  BY DEF StudioInv, Mounted, DeskInv, Desk
<1>2. Desk(desk') /\ desk'.id = desk.id /\ desk'.pending = TRUE
  BY <1>1 DEF Desk
<1>3. CallsInv'
  <2>1. kind # "save"
    OBVIOUS
  <2> QED
    BY <1>1, <2>1, SentIsACall DEF StudioInv
<1>4. Mounted'
  BY <1>2 DEF StudioInv, Mounted, DeskInv, FormInv
<1>5. OneRemoval'
  <2> DEFINE new == [kind |-> kind, canvas |-> docs.active, arg |-> arg, by |-> desk.id,
                     outcome |-> "none"]
  <2>1. dispatched' = dispatched \cup {new}
    BY DEF Send
  <2> HIDE DEF new
  <2>2. desk.id # 0 => \A c \in dispatched : ~(IsRemoval(c) /\ c.by = desk.id)
    BY DEF StudioInv, OneRemoval
  <2> QED
    BY <1>2, <2>1, <2>2 DEF OneRemoval, IsRemoval
<1> QED
  BY <1>3, <1>4, <1>5 DEF StudioInv

\* The console: what it picks, confirms, leaves and undoes.
LEMMA ConsoleKeeps ==
  ASSUME StudioInv, Console
  PROVE  StudioInv'
<1>1. CASE \/ \E m : ChooseMode(m) \/ \E c : PickCell(c) \/ AuthorResolves \/ HelpersLoad
           \/ CancelMode \/ \E id : OpenRestore(id) \/ CancelRestore
  <2>1. UNCHANGED <<form, page, mounts, agreed, cropped, dispatched>>
    BY <1>1 DEF ChooseMode, PickCell, AuthorResolves, HelpersLoad, CancelMode, OpenRestore,
       CancelRestore, Still, TabOnly, DeskKept, historyVars
  <2>2. Desk(desk') /\ desk'.id = desk.id /\ desk'.pending = desk.pending
    <3>1. ASSUME NEW m, ChooseMode(m)
          PROVE  desk' = desk
      BY <3>1 DEF ChooseMode, Aim
    <3>2. ASSUME NEW c, PickCell(c)
          PROVE  \E n : desk' \in {desk, [desk EXCEPT !.pick = n], [desk EXCEPT !.region = n]}
      BY <3>2 DEF PickCell, Aim
    <3>3. CASE AuthorResolves
      BY <3>3, ConsoleEdits DEF AuthorResolves, StudioInv
    <3>4. CASE HelpersLoad
      BY <3>4, ConsoleEdits DEF HelpersLoad, StudioInv
    <3>5. CASE CancelMode
      BY <3>5, ConsoleEdits DEF CancelMode, Aim, StudioInv
    <3>6. ASSUME NEW id, OpenRestore(id)
          PROVE  desk' = [desk EXCEPT !.row = id]
      BY <3>6 DEF OpenRestore
    <3>7. CASE CancelRestore
      BY <3>7, ConsoleEdits DEF CancelRestore, StudioInv
    <3> QED
      BY <1>1, <3>1, <3>2, <3>3, <3>4, <3>5, <3>6, <3>7, ConsoleEdits DEF StudioInv
  <2>3. Mounted'
    BY <2>1, <2>2 DEF StudioInv, Mounted, DeskInv, FormInv
  <2> QED
    BY <2>1, <2>2, <2>3, FewerCalls, OneRemovalStays DEF StudioInv, Mounted, DeskMoves
<1>2. CASE ConfirmBan \/ ConfirmWipe
  <2>1. UNCHANGED <<form, page, mounts, agreed, cropped>>
    BY <1>2 DEF ConfirmBan, ConfirmWipe, TabOnly, DeskKept, historyVars
  <2>2. CASE ConfirmBan
    BY <2>1, <2>2, ConfirmedOnce DEF ConfirmBan, DialogAccepts
  <2>3. CASE ConfirmWipe
    BY <2>1, <2>3, ConfirmedOnce DEF ConfirmWipe, DialogAccepts
  <2> QED
    BY <1>2, <2>2, <2>3
<1>3. CASE ConfirmRestore
  <2>1. /\ UNCHANGED <<form, page, mounts, agreed, cropped>>
        /\ desk' = [desk EXCEPT !.restoring = desk.row]
        /\ Send("restore", docs.active, desk.row, desk.id)
    BY <1>3 DEF ConfirmRestore, TabOnly, DeskKept, historyVars
  <2>2. Desk(desk') /\ desk'.id = desk.id /\ desk'.pending = desk.pending
    BY <2>1, ConsoleEdits DEF StudioInv
  <2>3. desk.id \in Nat /\ desk.id <= mounts /\ "restore" \notin {"ban", "wipe", "save"}
    BY DEF StudioInv, Mounted, DeskInv, Desk
  <2>4. CallsInv' /\ NoNewRemoval
    BY <2>1, <2>3, SentIsACall DEF StudioInv
  <2>5. Mounted'
    BY <2>1, <2>2 DEF StudioInv, Mounted, DeskInv, FormInv
  <2> QED
    BY <2>1, <2>2, <2>4, <2>5, OneRemovalStays DEF StudioInv, DeskMoves
<1> QED
  BY <1>1, <1>2, <1>3 DEF Console

\* An answered call is the same call: the console that sent it still has but that one.
LEMMA ServedIsTheSame ==
  ASSUME StudioInv, NEW call \in dispatched, NEW outcome, Served(call, outcome), agreed' = agreed
  PROVE  CallsInv' /\ Mounted' /\ OneRemoval'
<1> DEFINE new == [call EXCEPT !.outcome = outcome]
<1>1. /\ dispatched' = (dispatched \ {call}) \cup {new}
      /\ UNCHANGED <<page, form, desk, mounts>>
  BY DEF Served
<1>2. CallInv(call) /\ call \in [kind : {call.kind}, canvas : {call.canvas}, arg : {call.arg},
                                 by : Nat, outcome : {call.outcome}]
  BY DEF StudioInv, CallsInv, CallInv, Call
<1>3. /\ new.kind = call.kind /\ new.canvas = call.canvas /\ new.arg = call.arg
      /\ new.by = call.by /\ Call(new)
  BY <1>2 DEF Call
<1> HIDE DEF new
<1>4. CallInv(new)'
  BY <1>1, <1>2, <1>3 DEF CallInv
<1>5. \A c \in dispatched : CallInv(c)'
  BY <1>1 DEF StudioInv, CallsInv, CallInv
<1>6. CallsInv'
  BY <1>1, <1>4, <1>5 DEF CallsInv
<1>7. Mounted'
  BY <1>1 DEF StudioInv, Mounted, DeskInv, FormInv
<1>8. OneRemoval'
  <2> SUFFICES ASSUME desk.id # 0
               PROVE  /\ \A c \in dispatched' : IsRemoval(c) /\ c.by = desk.id => desk.pending
                      /\ \A b, c \in dispatched' :
                           IsRemoval(b) /\ b.by = desk.id /\ IsRemoval(c) /\ c.by = desk.id
                             => b = c
    BY <1>1 DEF OneRemoval
  <2>1. /\ \A c \in dispatched : IsRemoval(c) /\ c.by = desk.id => desk.pending
        /\ \A b, c \in dispatched :
             IsRemoval(b) /\ b.by = desk.id /\ IsRemoval(c) /\ c.by = desk.id => b = c
    BY DEF StudioInv, OneRemoval
  <2>2. IsRemoval(new) /\ new.by = desk.id =>
          desk.pending /\ \A c \in dispatched \ {call} : ~(IsRemoval(c) /\ c.by = desk.id)
    BY <1>3, <2>1 DEF IsRemoval
  <2> QED
    BY <1>1, <2>1, <2>2
<1> QED
  BY <1>6, <1>7, <1>8

\* The server crops what was confirmed for that canvas and that size (updateCanvasConfig).
LEMMA CropsAreAgreed ==
  ASSUME StudioInv, NEW call \in dispatched, ServeSave(call)
  PROVE  StudioInv'
<1>1. agreed' = agreed /\ \E o : Served(call, o)
  BY DEF ServeSave, historyVars
<1>2. CallsInv' /\ Mounted' /\ OneRemoval'
  BY <1>1, ServedIsTheSame
<1>3. CallInv(call) /\ call.kind = "save"
  BY DEF ServeSave, StudioInv, CallsInv
<1>4. \/ cropped' = cropped
      \/ /\ call.arg.confirmed
         /\ cropped' = cropped \cup {[canvas |-> call.canvas, size |-> call.arg.size]}
  BY DEF ServeSave, historyVars
<1>5. cropped' \subseteq agreed'
  BY <1>1, <1>3, <1>4 DEF CallInv, StudioInv
<1> QED
  BY <1>2, <1>5 DEF StudioInv

\* A call that Convex answers, whatever it does to the rows.
LEMMA ServeKeeps ==
  ASSUME StudioInv, NEW call \in dispatched,
         \/ ServeSave(call) \/ ServeActivate(call) \/ ServeFreeze(call) \/ ServeFails(call)
         \/ \E c : ServeCreate(call, c)
         \/ \E o : ServeRemoval(call, o) \/ ServeRestore(call, o)
  PROVE  StudioInv'
<1>1. CASE ServeActivate(call)
  <2>1. UNCHANGED <<form, desk, page, mounts, agreed, cropped>> /\ dispatched' \subseteq dispatched
    BY <1>1 DEF ServeActivate, historyVars
  <2>2. Mounted'
    BY <2>1 DEF StudioInv, Mounted, DeskInv, FormInv
  <2> QED
    BY <2>1, <2>2, FewerCalls, OneRemovalStays DEF StudioInv, Mounted, DeskMoves
<1>2. CASE \/ ServeFreeze(call) \/ ServeFails(call) \/ \E c : ServeCreate(call, c)
           \/ \E o : ServeRemoval(call, o) \/ ServeRestore(call, o)
  <2>1. agreed' = agreed /\ cropped' = cropped /\ \E o : Served(call, o)
    BY <1>2 DEF ServeFreeze, ServeFails, ServeCreate, ServeRemoval, ServeRestore, historyVars
  <2> QED
    BY <2>1, ServedIsTheSame DEF StudioInv
<1> QED
  BY <1>1, <1>2, CropsAreAgreed

\* The answer of a save: the form keeps the save that the dialog asks about.
LEMMA FormHears ==
  ASSUME StudioInv, NEW call \in dispatched, call.kind = "save", SaveAnswered(call)
  PROVE  FormInv(form')
<1>1. Form(form) /\ form.id <= mounts /\ (form.shrink # Nil => SaveArg(form.shrink.arg))
  BY DEF StudioInv, Mounted, FormInv
<1>2. SaveArg(call.arg)
  BY DEF StudioInv, CallsInv, CallInv
<1>3. CASE form' = form
  BY <1>1, <1>3 DEF FormInv
<1>4. ASSUME NEW c, NEW a, SaveArg(a),
             form' = [form EXCEPT !.save = "idle", !.shrink = [canvas |-> c, arg |-> a]]
      PROVE  FormInv(form')
  <2> DEFINE asked == [canvas |-> c, arg |-> a]
  <2>1. asked.arg = a
    OBVIOUS
  <2>2. form' = [form EXCEPT !.save = "idle", !.shrink = asked]
    BY <1>4
  <2> HIDE DEF asked
  <2>3. Form(form') /\ form'.id = form.id /\ form'.shrink = asked
    BY <1>1, <2>2 DEF Form
  <2> QED
    BY <1>1, <1>4, <2>1, <2>3 DEF FormInv
<1>5. ASSUME NEW v, NEW n, form' = [form EXCEPT !.save = v, !.timers = n, !.shrink = Nil]
      PROVE  FormInv(form')
  BY <1>1, <1>5 DEF FormInv, Form
<1>6. ASSUME NEW v, NEW n, form' = [form EXCEPT !.save = v, !.timers = n, !.shrink = form.shrink]
      PROVE  FormInv(form')
  BY <1>1, <1>6 DEF FormInv, Form
<1>7. ASSUME NEW v, form' = [form EXCEPT !.save = v, !.shrink = Nil]
      PROVE  FormInv(form')
  BY <1>1, <1>7 DEF FormInv, Form
<1>8. ASSUME NEW v, form' = [form EXCEPT !.save = v, !.shrink = form.shrink]
      PROVE  FormInv(form')
  BY <1>1, <1>8 DEF FormInv, Form
<1>9. CASE call.by # form.id
  BY <1>3, <1>9 DEF SaveAnswered
<1>10. CASE call.by = form.id /\ call.outcome = "ask"
  BY <1>2, <1>4, <1>10 DEF SaveAnswered
<1>11. CASE call.by = form.id /\ call.outcome = "ok"
  <2>1. form' = [form EXCEPT !.save = "saved", !.timers = form.timers + 1,
                             !.shrink = IF call.arg.confirmed THEN Nil ELSE form.shrink]
    BY <1>11 DEF SaveAnswered
  <2> QED
    BY <1>5, <1>6, <2>1
<1>12. CASE call.by = form.id /\ call.outcome \notin {"ask", "ok"}
  <2>1. form' = [form EXCEPT !.save = "error",
                             !.shrink = IF call.arg.confirmed THEN Nil ELSE form.shrink]
    BY <1>12 DEF SaveAnswered
  <2> QED
    BY <1>7, <1>8, <2>1
<1> QED
  BY <1>9, <1>10, <1>11, <1>12

\* The answer of a removal ends the wait of the console that sent it, and of no other.
LEMMA DeskHears ==
  ASSUME StudioInv, NEW call \in dispatched, IsRemoval(call), RemovalAnswered(call),
         dispatched' = dispatched \ {call}, UNCHANGED <<form, page, mounts, agreed, cropped>>
  PROVE  StudioInv'
<1>1. Desk(desk) /\ desk.id <= mounts
  BY DEF StudioInv, Mounted, DeskInv
<1>2. CallsInv' /\ NoNewRemoval
  BY FewerCalls DEF StudioInv, Mounted
<1>3. CASE call.by # desk.id
  <2>1. desk' = desk
    BY <1>3 DEF RemovalAnswered
  <2>2. Mounted' /\ DeskMoves
    BY <2>1 DEF StudioInv, Mounted, DeskInv, FormInv, DeskMoves
  <2> QED
    BY <1>2, <2>2, OneRemovalStays DEF StudioInv
<1>4. CASE call.by = desk.id
  <2>1. Desk(desk') /\ desk'.id = desk.id
    <3>1. \/ desk' = [desk EXCEPT !.pending = FALSE]
          \/ desk' = [desk EXCEPT !.pending = FALSE, !.target = Nil, !.pick = Nil]
          \/ desk' = [desk EXCEPT !.pending = FALSE, !.region = Nil]
      BY <1>4 DEF RemovalAnswered
    <3>2. CASE desk' = [desk EXCEPT !.pending = FALSE]
      BY <1>1, <3>2 DEF Desk
    <3>3. CASE desk' = [desk EXCEPT !.pending = FALSE, !.target = Nil, !.pick = Nil]
      BY <1>1, <3>3 DEF Desk
    <3>4. CASE desk' = [desk EXCEPT !.pending = FALSE, !.region = Nil]
      BY <1>1, <3>4 DEF Desk
    <3> QED
      BY <3>1, <3>2, <3>3, <3>4
  <2>2. Mounted'
    BY <1>1, <2>1 DEF StudioInv, Mounted, DeskInv, FormInv
  <2>3. desk.id # 0 => \A c \in dispatched' : ~(IsRemoval(c) /\ c.by = desk.id)
    BY <1>4 DEF StudioInv, OneRemoval
  <2>4. OneRemoval'
    BY <2>1, <2>3 DEF OneRemoval, IsRemoval
  <2> QED
    BY <1>2, <2>2, <2>4 DEF StudioInv
<1> QED
  BY <1>3, <1>4

\* An answer reaches the tab.
LEMMA SettledKeeps ==
  ASSUME StudioInv, NEW call \in dispatched, CallSettles(call)
  PROVE  StudioInv'
<1>1. dispatched' = dispatched \ {call} /\ agreed' = agreed /\ cropped' = cropped
  BY DEF CallSettles, historyVars
<1>2. CASE call.kind = "save"
  <2>1. SaveAnswered(call) /\ UNCHANGED <<page, desk, mounts>>
    BY <1>2 DEF CallSettles
  <2>2. FormInv(form')
    BY <1>2, <2>1, FormHears
  <2>3. Mounted' /\ DeskMoves
    BY <2>1, <2>2 DEF StudioInv, Mounted, DeskInv, FormInv, DeskMoves
  <2>4. CallsInv' /\ NoNewRemoval
    BY <1>1, <2>1, FewerCalls DEF StudioInv, Mounted
  <2> QED
    BY <1>1, <2>3, <2>4, OneRemovalStays DEF StudioInv
<1>3. CASE call.kind \in {"ban", "wipe"}
  <2>1. RemovalAnswered(call) /\ UNCHANGED <<page, form, mounts>>
    BY <1>3 DEF CallSettles
  <2> QED
    BY <1>1, <1>3, <2>1, DeskHears DEF IsRemoval
<1>4. CASE call.kind = "restore"
  <2>1. RestoreAnswered(call) /\ UNCHANGED <<page, form, mounts>>
    BY <1>4 DEF CallSettles
  <2>2. \E m : desk' \in {desk, [desk EXCEPT !.restoring = Nil, !.row = Nil, !.restored = m]}
    BY <2>1 DEF RestoreAnswered
  <2>3. Desk(desk') /\ desk'.id = desk.id /\ desk'.pending = desk.pending
    BY <2>2, ConsoleEdits DEF StudioInv
  <2>4. Mounted' /\ DeskMoves
    BY <2>1, <2>3 DEF StudioInv, Mounted, DeskInv, FormInv, DeskMoves
  <2>5. CallsInv' /\ NoNewRemoval
    BY <1>1, <2>1, FewerCalls DEF StudioInv, Mounted
  <2> QED
    BY <1>1, <2>4, <2>5, OneRemovalStays DEF StudioInv
<1>5. CASE call.kind = "create" /\ call.outcome = "ok"
  <2>1. mounts \in Nat
    BY DEF StudioInv, Mounted
  <2>2. Land
    BY <1>5 DEF CallSettles
  <2>3. Mounted' /\ DeskMoves /\ mounts' = mounts + 3
    BY <2>1, <2>2, LandsFresh
  <2>4. mounts' \in Nat /\ mounts <= mounts'
    BY <2>1, <2>3
  <2>5. CallsInv' /\ NoNewRemoval
    BY <1>1, <2>4, FewerCalls DEF StudioInv
  <2> QED
    BY <1>1, <2>3, <2>5, OneRemovalStays DEF StudioInv
<1>6. CASE UNCHANGED <<form, desk, page, mounts>>
  <2>1. Mounted' /\ DeskMoves
    BY <1>6 DEF StudioInv, Mounted, DeskInv, FormInv, DeskMoves
  <2>2. CallsInv' /\ NoNewRemoval
    BY <1>1, <1>6, FewerCalls DEF StudioInv, Mounted
  <2> QED
    BY <1>1, <2>1, <2>2, OneRemovalStays DEF StudioInv
<1> QED
  BY <1>2, <1>3, <1>4, <1>5, <1>6 DEF CallSettles

\* A render: the console goes with the freeze, and comes back as another.
LEMMA RenderKeeps ==
  ASSUME StudioInv, StudioRender
  PROVE  StudioInv'
<1>1. /\ UNCHANGED <<form, page, agreed, cropped, dispatched>>
      /\ desk' = IF Shown(docs').open THEN NoDesk
                 ELSE IF desk.id = 0 THEN DeskFor(docs', mounts + 1) ELSE desk
      /\ mounts' = IF desk'.id > mounts THEN mounts + 1 ELSE mounts
  BY DEF StudioRender, historyVars
<1>2. mounts \in Nat /\ Desk(desk) /\ desk.id <= mounts
  BY DEF StudioInv, Mounted, DeskInv
<1>3. CASE desk' = desk
  <2>1. mounts' = mounts
    BY <1>1, <1>2, <1>3 DEF Desk
  <2> QED
    BY <1>1, <1>3, <2>1, StudioRests
<1>4. CASE Desk(desk') /\ desk'.id \in {0, mounts + 1}
  <2>1. DeskMoves /\ mounts' \in Nat /\ mounts <= mounts' /\ desk'.id <= mounts'
    BY <1>1, <1>2, <1>4 DEF DeskMoves
  <2>2. page.id \in Nat /\ page.id <= mounts /\ form.id \in Nat /\ form.id <= mounts
    BY DEF StudioInv, Mounted, FormInv, Form
  <2>3. page.id <= mounts' /\ form.id <= mounts'
    BY <1>2, <2>1, <2>2
  <2>4. Mounted'
    BY <1>1, <1>4, <2>1, <2>3 DEF StudioInv, Mounted, DeskInv, FormInv
  <2>5. CallsInv' /\ NoNewRemoval
    BY <1>1, <2>1, FewerCalls DEF StudioInv
  <2> QED
    BY <1>1, <2>1, <2>4, <2>5, OneRemovalStays DEF StudioInv
<1>5. Desk(NoDesk) /\ NoDesk.id = 0
  BY DEF NoDesk, Desk
<1>6. mounts + 1 \in Nat
  BY <1>2
<1> QED
  BY <1>1, <1>3, <1>4, <1>5, <1>6, DeskFresh

\* The studio keeps its promises, whatever its owner does and whatever answers when.
LEMMA StudioKeeps ==
  ASSUME StudioInv, StudioNext \/ UNCHANGED studioVars
  PROVE  StudioInv'
<1>1. CASE Elsewhere \/ (\E c \in DOMAIN rows : Drains(c)) \/ UNCHANGED studioVars
  <2>1. UNCHANGED <<form, desk, page, mounts, agreed, cropped, dispatched>>
    BY <1>1 DEF Elsewhere, Drains, studioVars, historyVars
  <2> QED
    BY <2>1, StudioRests
<1>2. CASE Serve
  BY <1>2, ServeKeeps, SettledKeeps DEF Serve
<1> QED
  BY <1>1, <1>2, RenderKeeps, SettingsKeep, CreationKeeps, ConsoleKeeps DEF StudioNext
-----------------------------------------------------------------------------
(***************************************************************************)
(* The tab.                                                                *)
(***************************************************************************)
\* A page that has just loaded, and a dashboard that has just mounted.
LEMMA TabStarts ==
  ASSUME TabInit
  PROVE  TabInv
<1>1. Init
  BY DEF TabInit
<1>2. CanvasInv
  <2>1. /\ pointers = 0 /\ moved = FALSE /\ timer = {} /\ fired = <<>> /\ painting = FALSE
        /\ inspect = Off /\ lookups = {}
    BY <1>1 DEF Init, GestInit
  <2>2. pointers \in Nat /\ ~(pointers > 0) /\ ~(pointers > 1) /\ pointers # 1
    BY <2>1
  <2>3. <<>> \in Untapped
    BY DEF Untapped
  <2> QED
    BY <2>1, <2>2, <2>3 DEF CanvasInv, OnePress, CurrentIsShown, AuthorIsOfInspected
<1>3. StudioInv
  <2>1. PICK owned, size, open, outside : StudioStart(owned, size, open, outside)
    BY DEF TabInit, StudioInit
  <2>2. /\ page = [at |-> "dashboard", id |-> 1] /\ form = FormFor(docs, 2)
        /\ desk = DeskFor(docs, 3) /\ mounts = 3 /\ dispatched = {} /\ agreed = {}
        /\ cropped = {}
    BY <2>1 DEF StudioStart
  <2>3. page.id = 1
    BY <2>2
  <2>4. Form(form) /\ form.id = 2 /\ form.shrink = Nil
    BY <2>2, FormFresh
  <2>5. Desk(desk) /\ desk.id \in {0, 3}
    BY <2>2, DeskFresh
  <2>6. mounts \in Nat /\ page.id \in Nat /\ page.id <= mounts /\ form.id <= mounts /\ desk.id <= mounts
    BY <2>2, <2>3, <2>4, <2>5
  <2> QED
    BY <2>2, <2>4, <2>5, <2>6
       DEF StudioInv, CallsInv, Mounted, FormInv, DeskInv, OneRemoval
<1>4. HeldOrStrayed
  BY <1>1 DEF Init, GestInit, HeldOrStrayed
<1> QED
  BY <1>2, <1>3, <1>4 DEF TabInv

\* Whichever page the tab shows, the other rests.
LEMMA TabSteps ==
  ASSUME TabInv, [TabNext]_tabVars
  PROVE  TabInv'
<1>1. /\ (Next /\ Strays) \/ UNCHANGED <<vars, strayed>>
      /\ StudioNext \/ UNCHANGED studioVars
  BY DEF TabNext, OnCanvas, OnStudio, tabVars
<1> QED
  BY <1>1, CanvasKeeps, SpaceIsHeard, StudioKeeps DEF TabInv

LEMMA TabInvariant == FairTab => []TabInv
<1>1. TabInit => TabInv
  BY TabStarts
<1>2. TabInv /\ [TabNext]_tabVars => TabInv'
  BY TabSteps
<1> QED
  BY <1>1, <1>2, PTL DEF FairTab

\* One press does one thing to a cell.  The page's continuous paint never outlives the Space
\* key; the renderer's outlives it only where the focus, or the window's, has left the canvas
\* since (renderer.ts, CanvasView.tsx, useCanvasKeyboard.ts).
THEOREM OnePressOneThing == FairTab => []InputIsWhatWasDone
<1>1. TabInv => InputIsWhatWasDone
  BY DEF TabInv, CanvasInv, HeldOrStrayed, OnePress, Untapped, InputIsWhatWasDone
<1> QED
  BY <1>1, TabInvariant, PTL

\* However late and in whatever order the lookups answer, the panel names the author of the
\* pixel it shows (usePixelInspect.ts).
THEOREM PanelNamesItsAuthor == FairTab => []AuthorIsOfInspected
<1>1. TabInv => AuthorIsOfInspected
  BY DEF TabInv, CanvasInv, CurrentIsShown
<1> QED
  BY <1>1, TabInvariant, PTL

\* Drained pixels are cut only on the canvas, and to the size, of a warning that was accepted,
\* and no console has two removals under way (StudioDashboardBody.tsx, canvases.ts,
\* CrisisController.tsx).  Nothing is said of a pixel that has not drained, nor of whether a
\* removal's region or target was picked on the canvas it goes to.
THEOREM CropsAsAskedAndOneRemoval == FairTab => []CropsAsAskedRemovesOnce
<1>1. TabInv => CropsAsAskedRemovesOnce
  <2> SUFFICES ASSUME TabInv
               PROVE  CropsAsAskedRemovesOnce
    OBVIOUS
  <2> DEFINE Underway == {call \in dispatched : call.kind \in {"ban", "wipe"} /\ call.by = desk.id}
  <2>1. ASSUME desk.id # 0
        PROVE  Cardinality(Underway) <= 1
    <3>1. \A b, c \in Underway : b = c
      BY <2>1 DEF TabInv, StudioInv, OneRemoval, IsRemoval
    <3>2. Underway = {} \/ \E c : Underway = {c}
      <4> HIDE DEF Underway
      <4> QED
        BY <3>1
    <3> HIDE DEF Underway
    <3>3. Cardinality(Underway) \in {0, 1}
      BY <3>2, FS_EmptySet, FS_Singleton
    <3> QED
      BY <3>3
  <2>2. cropped \subseteq agreed
    BY DEF TabInv, StudioInv
  <2> QED
    BY <2>1, <2>2 DEF CropsAsAskedRemovesOnce
<1> QED
  BY <1>1, TabInvariant, PTL
-----------------------------------------------------------------------------
(***************************************************************************)
(* The marquee (crisisSelection.ts), which Studio's assumption MarqueeAgrees *)
(* checks on boards of three cells: here for every board and all corners.  *)
(***************************************************************************)
\* The ends of a clamped span are whole numbers (rectCellCount's Math.max and Math.min).
LEMMA SpanIsInts ==
  ASSUME NEW n \in Nat, NEW p \in Nat, NEW q \in Nat
  PROVE  Span(p, q, n)[1] \in Int /\ Span(p, q, n)[2] \in Int
BY DEF Span, Least, Most

\* One axis: an index between the corners and inside the board is in the clamped span.
LEMMA SpanIsBetween ==
  ASSUME NEW n \in Nat, NEW p \in Nat, NEW q \in Nat
  PROVE  /\ Span(p, q, n)[1] \in Nat /\ Span(p, q, n)[2] \in Int
         /\ \A i \in 0..n - 1 : Between(p, i, q) <=> i \in Span(p, q, n)[1]..Span(p, q, n)[2]
         /\ Span(p, q, n)[1]..Span(p, q, n)[2] \subseteq 0..n - 1
BY DEF Span, Least, Most, Between

\* The cells that are sent are the product of the two spans.
LEMMA RectIsProduct ==
  ASSUME NEW n \in Nat, NEW a \in Nat \X Nat, NEW b \in Nat \X Nat
  PROVE  RectCells(a, b, n) =
           (Span(a[1], b[1], n)[1]..Span(a[1], b[1], n)[2])
             \X (Span(a[2], b[2], n)[1]..Span(a[2], b[2], n)[2])
<1> DEFINE x == Span(a[1], b[1], n)
           y == Span(a[2], b[2], n)
           X == x[1]..x[2]
           Y == y[1]..y[2]
<1>1. a[1] \in Nat /\ a[2] \in Nat /\ b[1] \in Nat /\ b[2] \in Nat
  OBVIOUS
<1>2. /\ \A i \in 0..n - 1 : Between(a[1], i, b[1]) <=> i \in X
      /\ \A i \in 0..n - 1 : Between(a[2], i, b[2]) <=> i \in Y
      /\ X \subseteq 0..n - 1 /\ Y \subseteq 0..n - 1
  BY <1>1, SpanIsBetween
<1> HIDE DEF x, y, X, Y
<1>3. \A c \in Square(n) : Between(a[1], c[1], b[1]) /\ Between(a[2], c[2], b[2]) <=> c \in X \X Y
  <2> SUFFICES ASSUME NEW i \in 0..n - 1, NEW j \in 0..n - 1
               PROVE  Between(a[1], i, b[1]) /\ Between(a[2], j, b[2]) <=> i \in X /\ j \in Y
    BY DEF Square
  <2> QED
    BY <1>2
<1>4. X \X Y \subseteq Square(n)
  BY <1>2 DEF Square
<1>5. RectCells(a, b, n) = X \X Y
  BY <1>3, <1>4 DEF RectCells
<1> QED
  BY <1>5 DEF X, Y, x, y

\* The count that the dialog announces is that of the cells the wipe sends, wherever the
\* corners are, also past the edge of a board that has shrunk since the first was picked
\* (rectCellCount, rectCells).
THEOREM MarqueeCountIsExact ==
  \A n \in Nat, a \in Nat \X Nat, b \in Nat \X Nat :
    RectCellCount(a, b, n) = Cardinality(RectCells(a, b, n))
<1> SUFFICES ASSUME NEW n \in Nat, NEW a \in Nat \X Nat, NEW b \in Nat \X Nat
             PROVE  RectCellCount(a, b, n) = Cardinality(RectCells(a, b, n))
  OBVIOUS
<1> DEFINE x == Span(a[1], b[1], n)
           y == Span(a[2], b[2], n)
           X == x[1]..x[2]
           Y == y[1]..y[2]
<1>1. x[1] \in Int /\ x[2] \in Int /\ y[1] \in Int /\ y[2] \in Int
  <2>1. a[1] \in Nat /\ a[2] \in Nat /\ b[1] \in Nat /\ b[2] \in Nat
    OBVIOUS
  <2>2. \A p, q \in Nat : Span(p, q, n)[1] \in Int /\ Span(p, q, n)[2] \in Int
    BY SpanIsInts
  <2> HIDE DEF x, y
  <2>3. x[1] \in Int /\ x[2] \in Int
    BY <2>1, <2>2 DEF x
  <2>4. y[1] \in Int /\ y[2] \in Int
    BY <2>1, <2>2 DEF y
  <2> QED
    BY <2>3, <2>4
<1>2. RectCells(a, b, n) = X \X Y
  BY RectIsProduct
<1>3. RectCellCount(a, b, n) = Length(x) * Length(y)
  BY DEF RectCellCount
<1> HIDE DEF x, y
<1>4. IsFiniteSet(X) /\ Cardinality(X) = Length(x) /\ IsFiniteSet(Y) /\ Cardinality(Y) = Length(y)
  BY <1>1, FS_Interval DEF Length
<1> HIDE DEF X, Y
<1>5. Cardinality(X \X Y) = Cardinality(X) * Cardinality(Y)
  BY <1>4, FS_Product
<1> QED
  BY <1>2, <1>3, <1>4, <1>5

\* The outline drawn while the marquee grows is the border of the cells the wipe sends: those
\* that have a neighbour it spares (rectOutline).
THEOREM MarqueeOutlineIsBorder ==
  \A n \in Nat, a \in Nat \X Nat, b \in Nat \X Nat :
    RectOutline(a, b, n) =
      {c \in RectCells(a, b, n) :
         \E d \in {-1, 1} : \/ <<c[1] + d, c[2]>> \notin RectCells(a, b, n)
                            \/ <<c[1], c[2] + d>> \notin RectCells(a, b, n)}
<1> SUFFICES ASSUME NEW n \in Nat, NEW a \in Nat \X Nat, NEW b \in Nat \X Nat
             PROVE  RectOutline(a, b, n) =
                      {c \in RectCells(a, b, n) :
                         \E d \in {-1, 1} : \/ <<c[1] + d, c[2]>> \notin RectCells(a, b, n)
                                            \/ <<c[1], c[2] + d>> \notin RectCells(a, b, n)}
  OBVIOUS
<1> DEFINE x == Span(a[1], b[1], n)
           y == Span(a[2], b[2], n)
           X == x[1]..x[2]
           Y == y[1]..y[2]
           Edge(c) == \E d \in {-1, 1} : <<c[1] + d, c[2]>> \notin X \X Y \/ <<c[1], c[2] + d>> \notin X \X Y
<1>1. x[1] \in Int /\ x[2] \in Int /\ y[1] \in Int /\ y[2] \in Int
  <2>1. a[1] \in Nat /\ a[2] \in Nat /\ b[1] \in Nat /\ b[2] \in Nat
    OBVIOUS
  <2>2. \A p, q \in Nat : Span(p, q, n)[1] \in Int /\ Span(p, q, n)[2] \in Int
    BY SpanIsInts
  <2> HIDE DEF x, y
  <2>3. x[1] \in Int /\ x[2] \in Int
    BY <2>1, <2>2 DEF x
  <2>4. y[1] \in Int /\ y[2] \in Int
    BY <2>1, <2>2 DEF y
  <2> QED
    BY <2>3, <2>4
<1>2. RectCells(a, b, n) = X \X Y
  BY RectIsProduct
<1>3. RectOutline(a, b, n) =
        IF Length(x) = 0 \/ Length(y) = 0 THEN {}
        ELSE (X \X {y[1], y[2]}) \cup ({x[1], x[2]} \X (y[1] + 1..y[2] - 1))
  BY DEF RectOutline
<1> HIDE DEF x, y
<1>4. CASE Length(x) = 0 \/ Length(y) = 0
  <2>1. X = {} \/ Y = {}
    BY <1>1, <1>4 DEF Length
  <2> QED
    BY <1>2, <1>3, <1>4, <2>1
<1>5. CASE Length(x) # 0 /\ Length(y) # 0
  <2>1. x[1] <= x[2] /\ y[1] <= y[2]
    BY <1>1, <1>5 DEF Length
  <2>2. ASSUME NEW i \in X, NEW j \in Y
        PROVE  Edge(<<i, j>>) <=> i \in {x[1], x[2]} \/ j \in {y[1], y[2]}
    <3>1. i \in Int /\ j \in Int /\ x[1] <= i /\ i <= x[2] /\ y[1] <= j /\ j <= y[2]
      BY <1>1
    <3>2. Edge(<<i, j>>) <=> i - 1 \notin X \/ i + 1 \notin X \/ j - 1 \notin Y \/ j + 1 \notin Y
      <4>1. \A d \in Int : (<<i + d, j>> \notin X \X Y <=> i + d \notin X)
                           /\ (<<i, j + d>> \notin X \X Y <=> j + d \notin Y)
        OBVIOUS
      <4>2. i + (-1) = i - 1 /\ j + (-1) = j - 1 /\ -1 \in Int /\ 1 \in Int
        BY <3>1
      <4> HIDE DEF X, Y
      <4> QED
        BY <4>1, <4>2
    <3> QED
      BY <1>1, <3>1, <3>2
  <2>3. \A c \in X \X Y : Edge(c) <=> c \in (X \X {y[1], y[2]}) \cup ({x[1], x[2]} \X (y[1] + 1..y[2] - 1))
    <3> SUFFICES ASSUME NEW i \in X, NEW j \in Y
                 PROVE  Edge(<<i, j>>) <=> \/ j \in {y[1], y[2]}
                                           \/ i \in {x[1], x[2]} /\ j \in y[1] + 1..y[2] - 1
      <4> HIDE DEF X, Y, Edge
      <4> QED
        OBVIOUS
    <3>1. j \in {y[1], y[2]} \/ j \in y[1] + 1..y[2] - 1
      BY <1>1
    <3> QED
      BY <2>2, <3>1
  <2>4. (X \X {y[1], y[2]}) \cup ({x[1], x[2]} \X (y[1] + 1..y[2] - 1)) \subseteq X \X Y
    <3>1. y[1] \in Y /\ y[2] \in Y /\ x[1] \in X /\ x[2] \in X /\ y[1] + 1..y[2] - 1 \subseteq Y
      BY <1>1, <2>1
    <3> HIDE DEF X, Y
    <3> QED
      BY <3>1
  <2>5. RectOutline(a, b, n) = {c \in X \X Y : Edge(c)}
    <3>1. RectOutline(a, b, n) = (X \X {y[1], y[2]}) \cup ({x[1], x[2]} \X (y[1] + 1..y[2] - 1))
      BY <1>3, <1>5
    <3> HIDE DEF X, Y, Edge
    <3> QED
      BY <2>3, <2>4, <3>1
  <2> QED
    BY <1>2, <2>5
<1> QED
  BY <1>4, <1>5

\* The warning never misses a wipe of the whole board (wipeIsLarge).
THEOREM WholeBoardIsLarge ==
  \A n \in Nat \ {0}, a \in Nat \X Nat, b \in Nat \X Nat :
    RectCells(a, b, n) = Square(n) => WipeIsLarge(RectCellCount(a, b, n), n)
<1> SUFFICES ASSUME NEW n \in Nat \ {0}, NEW a \in Nat \X Nat, NEW b \in Nat \X Nat,
                    RectCells(a, b, n) = Square(n)
             PROVE  WipeIsLarge(RectCellCount(a, b, n), n)
  OBVIOUS
<1>1. IsFiniteSet(0..n - 1) /\ Cardinality(0..n - 1) = n
  <2>1. PICK first \in Int, last \in Int : first = 0 /\ last = n - 1
    OBVIOUS
  <2>2. IsFiniteSet(first..last) /\ Cardinality(first..last) = IF first > last THEN 0 ELSE last - first + 1
    BY FS_Interval
  <2> QED
    BY <2>1, <2>2
<1>2. Cardinality(Square(n)) = n * n
  BY <1>1, FS_Product DEF Square
<1>3. RectCellCount(a, b, n) = n * n
  BY <1>2, MarqueeCountIsExact
<1>4. n * n > 0 /\ 4 * (n * n) >= n * n
  OBVIOUS
<1> QED
  BY <1>3, <1>4 DEF WipeIsLarge
=============================================================================
